---- MODULE Spec2Model ----
(***************************************************************************)
(* Inventory dashboard: the reconciliation worker (worker.ts), the field   *)
(* mapper (sanitize.ts) and the data-processor hook (useDataProcessor.ts). *)
(*                                                                         *)
(* JavaScript values are records [t, s, n]: t is the type tag, s the text  *)
(* of a string (a sequence of one-character strings) and n the value of a  *)
(* number.  "bad" is an object whose conversion to a primitive throws      *)
(* (for instance {"toString": 1} read back from localStorage).             *)
(***************************************************************************)
EXTENDS Integers, Sequences, FiniteSets, TLC

NULL == [t |-> "null", s |-> <<>>, n |-> 0]
UNDEF == [t |-> "undef", s |-> <<>>, n |-> 0]
BAD == [t |-> "bad", s |-> <<>>, n |-> 0]
S(chars) == [t |-> "str", s |-> chars, n |-> 0]
N(k) == [t |-> "num", s |-> <<>>, n |-> k]
\* A function and a plain object, as a property inherited from Object.prototype reads.
FUNCTION == [t |-> "func", s |-> <<>>, n |-> 0]
OBJECT == [t |-> "obj", s |-> <<>>, n |-> 0]

IsNullish(v) == v.t \in {"null", "undef"}

\* JavaScript truthiness: null, undefined, "" and 0 are falsy.
Truthy(v) ==
    \/ v.t = "str" /\ v.s # <<>>
    \/ v.t = "num" /\ v.n # 0
    \/ v.t \in {"bad", "func", "obj"}

\* a || b
OrElse(a, b) == IF Truthy(a) THEN a ELSE b

WhiteSpace == {" ", "\t"}

RECURSIVE TrimStart(_)
TrimStart(s) ==
    IF s = <<>> THEN <<>>
    ELSE IF Head(s) \in WhiteSpace THEN TrimStart(Tail(s)) ELSE s

RECURSIVE TrimEnd(_)
TrimEnd(s) ==
    IF s = <<>> THEN <<>>
    ELSE IF s[Len(s)] \in WhiteSpace THEN TrimEnd(SubSeq(s, 1, Len(s) - 1)) ELSE s

\* String.prototype.trim
Trim(s) == TrimEnd(TrimStart(s))

Digits == <<"0", "1", "2", "3", "4", "5", "6", "7", "8", "9">>
DigitChars == {Digits[i] : i \in 1..Len(Digits)}
DigitVal(c) == (CHOOSE i \in 1..Len(Digits) : Digits[i] = c) - 1

RECURSIVE NatToStr(_)
NatToStr(k) ==
    IF k < Len(Digits) THEN <<Digits[k + 1]>>
    ELSE NatToStr(k \div Len(Digits)) \o <<Digits[(k % Len(Digits)) + 1]>>

\* String(v) for a value that converts; ToStringThrows(v) tells when it does not.
ToStringThrows(v) == v.t = "bad"
ToStr(v) ==
    CASE v.t = "str" -> v.s
      [] v.t = "num" -> IF v.n < 0 THEN <<"-">> \o NatToStr(-v.n) ELSE NatToStr(v.n)
      [] v.t = "null" -> <<"n", "u", "l", "l">>
      [] OTHER -> <<"u", "n", "d", "e", "f", "i", "n", "e", "d">>

\* str.replace(/,/g, '')
RemoveCommas(s) == SelectSeq(s, LAMBDA c : c # ",")

RECURSIVE DigitsToNat(_)
DigitsToNat(s) ==
    IF s = <<>> THEN 0
    ELSE DigitsToNat(SubSeq(s, 1, Len(s) - 1)) * Len(Digits) + DigitVal(s[Len(s)])

AllDigits(s) == s # <<>> /\ \A i \in 1..Len(s) : s[i] \in DigitChars

\* A number that is not whole is kept as its decimal expansion: units / 10^places,
\* places > 0 and the last digit of units not 0; a whole number is an integer.
RECURSIVE Decimal(_, _)
Decimal(units, places) ==
    IF places = 0 THEN units
    ELSE IF units % Len(Digits) = 0 THEN Decimal(units \div Len(Digits), places - 1)
    ELSE [units |-> units, places |-> places]

\* The literal without its sign: digits, with at most one point and at least one digit.
Unsigned(t) == IF t # <<>> /\ Head(t) \in {"-", "+"} THEN Tail(t) ELSE t
PointAt(b) == IF \E i \in 1..Len(b) : b[i] = "." THEN CHOOSE i \in 1..Len(b) : b[i] = "." ELSE 0
WholePart(b) == IF PointAt(b) = 0 THEN b ELSE SubSeq(b, 1, PointAt(b) - 1)
FractionPart(b) == IF PointAt(b) = 0 THEN <<>> ELSE SubSeq(b, PointAt(b) + 1, Len(b))
IsNumeral(b) ==
    /\ WholePart(b) \o FractionPart(b) # <<>>
    /\ \A i \in 1..Len(b) : b[i] \in DigitChars \/ i = PointAt(b)

\* Number(text) on decimal literals (no exponent, no radix prefix, no Infinity):
\* isNaN tells a text that is no number; blank text is the number 0.
NumberIsNaN(s) ==
    LET t == Trim(s) IN
    ~ \/ t = <<>>
      \/ IsNumeral(Unsigned(t))
NumberOf(s) ==
    LET t == Trim(s)
        b == Unsigned(t)
        magnitude == DigitsToNat(WholePart(b) \o FractionPart(b))
    IN  IF t = <<>> THEN 0
        ELSE Decimal(IF Head(t) = "-" THEN -magnitude ELSE magnitude, Len(FractionPart(b)))

\* The number a text denotes has a fraction: a non-zero digit after the point.
HasFraction(s) ==
    /\ ~NumberIsNaN(s)
    /\ \E i \in 1..Len(FractionPart(Unsigned(Trim(s)))) :
          FractionPart(Unsigned(Trim(s)))[i] # "0"

\* parseNumeric(value); it throws exactly when String(value) throws.
parseNumeric(value) ==
    IF IsNullish(value) \/ value = S(<<>>) THEN 0
    ELSE LET text == RemoveCommas(ToStr(value)) IN
         IF NumberIsNaN(text) THEN 0 ELSE NumberOf(text)

\* VENDOR_LEAD_TIMES as <<code, days>> pairs.
VENDOR_LEAD_TIMES == <<
    <<<<"S", "T", "A", "S", "T", "A">>, 21>>,
    <<<<"E", "L", "C", "I", "N", "D">>, 35>>,
    <<<<"F", "O", "R", "F", "A", "S">>, 21>>,
    <<<<"E", "D", "S", "M", "A", "N">>, 10>>,
    <<<<"D", "E", "F", "A", "U", "L", "T">>, 14>>
>>

\* VENDOR_DETAILS as <<code, name>> pairs in declaration order (contacts, notes
\* and freight text are not read by the worker).
VENDOR_DETAILS == <<
    <<<<"S", "I", "M", "S", "T", "R">>,
      <<"S", "I", "M", "P", "S", "O", "N", " ", "S", "T", "R", "O", "N", "G", "-", "T", "I", "E", " ", "C", "O", " ", "I", "N", "C">>>>,
    <<<<"E", "L", "C", "I", "N", "D">>,
      <<"B", "L", "A", "C", "K", " ", "&", " ", "D", "E", "C", "K", "E", "R", " ", "I", "N", "C", ".">>>>,
    <<<<"F", "R", "A", "I", "N", "T">>,
      <<"F", "R", "A", "N", "K", "L", "I", "N", " ", "I", "N", "T", "E", "R", "N", "A", "T", "I", "O", "N", "A", "L">>>>,
    <<<<"T", "R", "E", "M", "C", "O">>,
      <<"T", "R", "E", "M", "C", "O", " ", "C", "P", "G", " ", "I", "N", "C">>>>,
    <<<<"I", "T", "M", "I", "N", "T">>,
      <<"I", "T", "M", "-", "I", "N", "T", "E", "R", "N", "A", "T", "I", "O", "N", "A", "L", " ", "T", "O", "O", "L", " ", "M", "F", "G", ".">>>>,
    <<<<"C", "O", "N", "F", "A", "S">>,
      <<"S", "F", "S", " ", "I", "N", "T", "E", "C", ",", " ", "I", "N", "C", ".">>>>,
    <<<<"A", "M", "E", "S", "E", "A">>,
      <<"A", "M", "E", "R", "I", "C", "A", "N", " ", "S", "E", "A", "L", "A", "N", "T", "S", " ", "I", "N", "C", ".">>>>,
    <<<<"S", "T", "A", "S", "T", "A">>,
      <<"S", "T", "A", "R", " ", "S", "T", "A", "I", "N", "L", "E", "S", "S", " ", "S", "C", "R", "E", "W", " ", "C", "O", ".">>>>,
    <<<<"P", "O", "R", "F", "A", "S">>,
      <<"B", "R", "I", "G", "H", "T", "O", "N", "-", "B", "E", "S", "T", " ", "I", "N", "T", "E", "R", "N", "A", "T", "I", "O", "N", "A", "L", ",", " ", "I", "N", "C", ".">>>>,
    <<<<"N", "O", "V", "F", "A", "S">>,
      <<"N", "O", "V", "A", " ", "F", "A", "S", "T", "E", "N", "E", "R", "S", " ", "C", "O", ".">>>>,
    <<<<"S", "P", "I">>,
      <<"S", "P", "I", " ", "L", "L", "C">>>>,
    <<<<"T", "E", "X", "T", "R", "U">>,
      <<"T", "E", "X", "-", "T", "R", "U", "D", "E", ",", " ", "L", "P">>>>,
    <<<<"P", "R", "I", "S", "O", "U">>,
      <<"P", "R", "I", "M", "E", " ", "S", "O", "U", "R", "C", "E">>>>,
    <<<<"H", "A", "W", "F", "A", "S">>,
      <<"H", "A", "W", "K", " ", "F", "A", "S", "T", "E", "N", "E", "R", " ", "S", "E", "R", "V", "I", "C", "E", "S", ",", " ", "L", ".", "L", ".", "C", ".">>>>,
    <<<<"E", "D", "S", "M", "A", "N">>,
      <<"E", "D", "S", "O", "N", " ", "M", "A", "N", "U", "F", "A", "C", "T", "U", "R", "I", "N", "G", " ", "I", "N", "C">>>>,
    <<<<"P", "E", "C", "C", "O", "R">>,
      <<"P", "E", "C", "O", "R", "A", " ", "C", "O", "R", "P", "O", "R", "A", "T", "I", "O", "N">>>>,
    <<<<"C", "O", "N", "P", "R", "O">>,
      <<"D", "A", "P", " ", "P", "R", "O", "D", "U", "C", "T", "S", " ", "I", "N", "C", ".">>>>,
    <<<<"S", "T", "A", "E", "X", "T">>,
      <<"S", "T", "A", "R", " ", "E", "X", "T", "R", "U", "D", "E", "D", " ", "S", "H", "A", "P", "E", "S", ",", " ", "I", "N", "C", ".">>>>,
    <<<<"F", "O", "M", "P", "R", "O">>,
      <<"I", "C", "P", " ", "A", "D", "H", "E", "S", "I", "V", "E", "S", " ", "&", " ", "S", "E", "A", "L", "A", "N", "T", "S", " ", "I", "N", "C">>>>,
    <<<<"L", "E", "L", "A", "N", "D">>,
      <<"L", "E", "L", "A", "N", "D", " ", "I", "N", "D", "U", "S", "T", "R", "I", "E", "S", ",", " ", "I", "N", "C", ".">>>>,
    <<<<"K", "A", "N", "C", "O", "R">>,
      <<"K", "A", "N", "E", "B", "R", "I", "D", "G", "E", " ", "C", "O", "R", "P", ".">>>>,
    <<<<"F", "O", "R", "F", "A", "S">>,
      <<"F", "O", "R", "D", " ", "F", "A", "S", "T", "E", "N", "E", "R", "S", ",", " ", "I", "N", "C", ".">>>>,
    <<<<"M", "I", "L", "T", "O", "O">>,
      <<"M", "I", "L", "W", "A", "U", "K", "E", "E", " ", "E", "L", "E", "C", "T", "R", "I", "C", " ", "T", "O", "O", "L", " ", "C", "O", "R", "P">>>>,
    <<<<"T", "A", "N", "T", "E", "C">>,
      <<"T", "A", "N", "G", "E", "N", "T", " ", "T", "E", "C", "H", "N", "O", "L", "O", "G", "I", "E", "S", ",", " ", "L", "L", "C">>>>,
    <<<<"I", "O", "W", "P", "L", "A">>,
      <<"P", "L", "A", "S", "T", "I", "C", " ", "R", "E", "C", "Y", "C", "L", "I", "N", "G", " ", "O", "F", " ", "I", "O", "W", "A", " ", "F", "A", "L", "L", "S", " ", "I", "N", "C">>>>,
    <<<<"C", "A", "R", "C", "C", "W">>,
      <<"C", "A", "R", "L", "I", "S", "L", "E", " ", "C", "C", "W">>>>,
    <<<<"E", "P", "S", "P", "L", "A">>,
      <<"E", "N", "G", "I", "N", "E", "E", "R", "E", "D", " ", "P", "L", "A", "S", "T", "I", "C", "S", " ", "S", "Y", "S", "T", "E", "M", "S">>>>,
    <<<<"C", "L", "E", "F", "O", "R">>,
      <<"C", "L", "E", "V", "E", "L", "A", "N", "D", " ", "C", "I", "T", "Y", " ", "F", "O", "R", "G", "E">>>>,
    <<<<"S", "T", "R", "S", "E", "R">>,
      <<"N", "E", "F", "C", "O", " ", "C", "O", "R", "P", "O", "R", "A", "T", "I", "O", "N">>>>,
    <<<<"M", "F", "M", "B", "U", "I">>,
      <<"M", "F", "M", " ", "B", "U", "I", "L", "D", "I", "N", "G", " ", "P", "R", "O", "D", "U", "C", "T", "S", " ", "C", "O", "R", "P", ".">>>>,
    <<<<"J", "L", "F", "O", "A", "M">>,
      <<"J", " ", "&", " ", "K", " ", "F", "O", "A", "M", " ", "F", "A", "B", "R", "I", "C", "A", "T", "I", "N", "G", ",", " ", "I", "N", "C", ".">>>>,
    <<<<"I", "N", "T", "U", "S", "A">>,
      <<"I", "N", "T", "E", "R", "C", "O", "R", "P", " ", "U", "S", "A">>>>,
    <<<<"E", "J", "O", "F", "A", "S">>,
      <<"E", "J", "O", "T", " ", "F", "A", "S", "T", "E", "N", "I", "N", "G", " ", "S", "Y", "S", "T", "E", "M", "S", " ", "L", "P">>>>,
    <<<<"G", "A", "L", "I", "N", "D">>,
      <<"T", "R", "U", "-", "C", "U", "T">>>>,
    <<<<"P", "A", "N", "A", "M", "E">>,
      <<"P", "A", "N", " ", "A", "M", "E", "R", "I", "C", "A", "N", " ", "S", "C", "R", "E", "W", " ", "L", "L", "C", " ", "-", " ", "3", "0">>>>,
    <<<<"T", "E", "N", "R", "Y", "U">>,
      <<"T", "E", "N", "R", "Y", "U">>>>,
    <<<<"M", "A", "N", "P", "R", "O">>,
      <<"M", "A", "N", "U", "S", " ", "P", "R", "O", "D", "U", "C", "T", "S">>>>,
    <<<<"E", "M", "P", "I", "N", "D">>,
      <<"E", "M", "P", "I", "R", "E", " ", "I", "N", "D", "U", "S", "T", "R", "I", "E", "S">>>>,
    <<<<"S", "P", "E", "T", "E", "C">>,
      <<"S", "P", "E", "C", "I", "F", "I", "E", "D", " ", "T", "E", "C", "H", "N", "O", "L", "O", "G", "I", "E", "S", ",", " ", "I", "N", "C", ".">>>>,
    <<<<"K", "F", "L", "E", "X">>,
      <<"K", "-", "F", "L", "E", "X", " ", "U", "S", "A">>>>,
    <<<<"S", "T", "E", "F", "A", "S">>,
      <<"S", "T", "E", "L", "F", "A", "S", "T", " ", "I", "N", "C", ".">>>>
>>

\* The properties a plain object such as VENDOR_LEAD_TIMES inherits from
\* Object.prototype: its methods, and __proto__, which reads Object.prototype.
PrototypeMethods == {
    <<"c", "o", "n", "s", "t", "r", "u", "c", "t", "o", "r">>,
    <<"h", "a", "s", "O", "w", "n", "P", "r", "o", "p", "e", "r", "t", "y">>,
    <<"i", "s", "P", "r", "o", "t", "o", "t", "y", "p", "e", "O", "f">>,
    <<"p", "r", "o", "p", "e", "r", "t", "y", "I", "s", "E", "n", "u", "m", "e", "r", "a", "b", "l", "e">>,
    <<"t", "o", "L", "o", "c", "a", "l", "e", "S", "t", "r", "i", "n", "g">>,
    <<"t", "o", "S", "t", "r", "i", "n", "g">>,
    <<"v", "a", "l", "u", "e", "O", "f">>,
    <<"_", "_", "d", "e", "f", "i", "n", "e", "G", "e", "t", "t", "e", "r", "_", "_">>,
    <<"_", "_", "d", "e", "f", "i", "n", "e", "S", "e", "t", "t", "e", "r", "_", "_">>,
    <<"_", "_", "l", "o", "o", "k", "u", "p", "G", "e", "t", "t", "e", "r", "_", "_">>,
    <<"_", "_", "l", "o", "o", "k", "u", "p", "S", "e", "t", "t", "e", "r", "_", "_">>}
ProtoKey == <<"_", "_", "p", "r", "o", "t", "o", "_", "_">>

\* A lookup of own entries only, as Object.hasOwn would allow.
LeadTimeOfOwn(key) ==
    LET hits == {i \in 1..Len(VENDOR_LEAD_TIMES) : VENDOR_LEAD_TIMES[i][1] = key} IN
    IF hits = {} THEN UNDEF ELSE N(VENDOR_LEAD_TIMES[CHOOSE i \in hits : TRUE][2])

\* VENDOR_LEAD_TIMES[key]: the days as a number value for an entry of the
\* table, what Object.prototype holds for an inherited key, undefined otherwise.
LeadTimeOf(key) ==
    LET hits == {i \in 1..Len(VENDOR_LEAD_TIMES) : VENDOR_LEAD_TIMES[i][1] = key} IN
    IF hits # {} THEN N(VENDOR_LEAD_TIMES[CHOOSE i \in hits : TRUE][2])
    ELSE IF key \in PrototypeMethods THEN FUNCTION
    ELSE IF key = ProtoKey THEN OBJECT
    ELSE UNDEF

\* The mutant finds no code: the map is left empty.
vendorNameToCodeMapEmpty(vendor) == UNDEF

\* vendorNameToCodeMap.get(vendor): the map is filled in declaration order, a
\* later entry of the same name replacing an earlier one.
vendorNameToCodeMap(vendor) ==
    LET hits == {i \in 1..Len(VENDOR_DETAILS) :
                    vendor.t = "str" /\ VENDOR_DETAILS[i][2] # <<>>
                    /\ VENDOR_DETAILS[i][2] = vendor.s} IN
    IF hits = {} THEN UNDEF
    ELSE S(VENDOR_DETAILS[CHOOSE i \in hits : \A j \in hits : j <= i][1])

Unknown == S(<<"U", "n", "k", "n", "o", "w", "n">>)
DEFAULT == <<"D", "E", "F", "A", "U", "L", "T">>

(***************************************************************************)
(* Record validation (worker.ts 12-25).  Rows are records of values; a     *)
(* field the row lacks holds UNDEF.                                        *)
(***************************************************************************)
\* The mutant drops the trim: a string of blanks counts as present.
hasRequiredFieldNoTrim(obj, field) ==
    LET value == obj[field] IN
    IF IsNullish(value) THEN FALSE
    ELSE IF value.t = "str" THEN value.s # <<>>
    ELSE TRUE

hasRequiredField(obj, field) ==
    LET value == obj[field] IN
    IF IsNullish(value) THEN FALSE
    ELSE IF value.t = "str" THEN Trim(value.s) # <<>>
    ELSE TRUE

filterData(data, requiredFields) ==
    SelectSeq(data, LAMBDA entry : \A field \in requiredFields : hasRequiredField(entry, field))

LotRequired == {"item", "warehouse"}
ItemsRequired == {"item"}
UsageRequired == {"item", "warehouse"}

(***************************************************************************)
(* The reconciler: self.onmessage of the worker (worker.ts 28-138).        *)
(***************************************************************************)
\* `${String(x.item)}-${x.warehouse}`
JoinKey(item, warehouse) == ToStr(item) \o <<"-">> \o ToStr(warehouse)

\* {} as itemDetails / usageDetails: every property reads undefined.
NoItem ==
    [item |-> UNDEF, description |-> UNDEF, unitCost |-> UNDEF, primaryVendor |-> UNDEF,
     category |-> UNDEF, rpl |-> UNDEF, vendorCode |-> UNDEF]
NoUsage ==
    [item |-> UNDEF, warehouse |-> UNDEF, monthlyAvg |-> UNDEF, min |-> UNDEF, max |-> UNDEF]

\* itemsMap.get(key) || {}: the last valid item row of that id.
itemsMapGet(validItems, key) ==
    LET hits == {i \in 1..Len(validItems) : ToStr(validItems[i].item) = key} IN
    IF hits = {} THEN NoItem
    ELSE validItems[CHOOSE i \in hits : \A j \in hits : j <= i]

\* usageMap.get(key) || {}: the last valid usage row of that key.
usageMapGet(validUsage, key) ==
    LET hits == {i \in 1..Len(validUsage) :
                    JoinKey(validUsage[i].item, validUsage[i].warehouse) = key} IN
    IF hits = {} THEN NoUsage
    ELSE validUsage[CHOOSE i \in hits : \A j \in hits : j <= i]

\* lotGroups.has(key): the position of the group in insertion order, 0 if none.
GroupIndex(groups, key) ==
    LET hits == {i \in 1..Len(groups) : groups[i].key = key} IN
    IF hits = {} THEN 0 ELSE CHOOSE i \in hits : TRUE

AddLocation(locations, location) ==
    IF Truthy(location) /\ \A i \in 1..Len(locations) : locations[i] # location
    THEN Append(locations, location)
    ELSE locations

\* The mutant lets every lot line that supplies a description or a vendor
\* overwrite the one the group has.
AddLotOverwrites(groups, lot) ==
    LET key == JoinKey(lot.item, lot.warehouse)
        found == GroupIndex(groups, key)
        fresh == [key |-> key, item |-> ToStr(lot.item), warehouse |-> lot.warehouse,
                  description |-> lot.description, vendor |-> lot.vendor,
                  onHand |-> 0, committed |-> 0, available |-> 0, locations |-> <<>>]
        base == IF found = 0 THEN Append(groups, fresh) ELSE groups
        at == IF found = 0 THEN Len(base) ELSE found
        group == base[at]
    IN  [base EXCEPT ![at] =
            [group EXCEPT
                !.onHand = @ + parseNumeric(lot.onHand),
                !.committed = @ + parseNumeric(lot.committed),
                !.available = @ + parseNumeric(lot.available),
                !.locations = AddLocation(@, lot.location),
                !.description = IF Truthy(lot.description) THEN lot.description ELSE @,
                !.vendor = IF Truthy(lot.vendor) THEN lot.vendor ELSE @]]

\* One iteration of the loop over validLots (worker.ts 68-100).
AddLot(groups, lot) ==
    LET key == JoinKey(lot.item, lot.warehouse)
        found == GroupIndex(groups, key)
        fresh == [key |-> key, item |-> ToStr(lot.item), warehouse |-> lot.warehouse,
                  description |-> lot.description, vendor |-> lot.vendor,
                  onHand |-> 0, committed |-> 0, available |-> 0, locations |-> <<>>]
        base == IF found = 0 THEN Append(groups, fresh) ELSE groups
        at == IF found = 0 THEN Len(base) ELSE found
        group == base[at]
    IN  [base EXCEPT ![at] =
            [group EXCEPT
                !.onHand = @ + parseNumeric(lot.onHand),
                !.committed = @ + parseNumeric(lot.committed),
                !.available = @ + parseNumeric(lot.available),
                !.locations = AddLocation(@, lot.location),
                !.description = IF ~Truthy(@) /\ Truthy(lot.description)
                                THEN lot.description ELSE @,
                !.vendor = IF ~Truthy(@) /\ Truthy(lot.vendor) THEN lot.vendor ELSE @]]

RECURSIVE lotGroups(_)
lotGroups(validLots) ==
    IF validLots = <<>> THEN <<>>
    ELSE AddLot(lotGroups(SubSeq(validLots, 1, Len(validLots) - 1)),
                validLots[Len(validLots)])

\* One element of `merged` (worker.ts 102-131).
MergedItem(lot, validItems, validUsage) ==
    LET itemDetails == itemsMapGet(validItems, lot.item)
        usageDetails == usageMapGet(validUsage, lot.item \o <<"-">> \o ToStr(lot.warehouse))
        unitCost == parseNumeric(itemDetails.unitCost)
        vendor == OrElse(OrElse(itemDetails.primaryVendor, lot.vendor), Unknown)
        vendorCode == OrElse(itemDetails.vendorCode, vendorNameToCodeMap(vendor))
        mapped == IF Truthy(vendorCode) THEN LeadTimeOf(ToStr(vendorCode)) ELSE vendorCode
    IN  [id |-> lot.item \o <<"-">> \o ToStr(lot.warehouse),
         item |-> lot.item,
         warehouse |-> lot.warehouse,
         onHand |-> lot.onHand,
         committed |-> lot.committed,
         available |-> lot.available,
         locations |-> lot.locations,
         description |-> OrElse(lot.description, itemDetails.description),
         vendor |-> vendor,
         vendorCode |-> vendorCode,
         unitCost |-> unitCost,
         inventoryValue |-> lot.available * unitCost,
         monthlyAvg |-> parseNumeric(usageDetails.monthlyAvg),
         min |-> parseNumeric(usageDetails.min),
         max |-> parseNumeric(usageDetails.max),
         leadTime |-> OrElse(mapped, LeadTimeOf(DEFAULT)),
         rpl |-> OrElse(itemDetails.rpl, S(<<>>)),
         category |-> itemDetails.category]

\* parseNumeric(value) throws when String(value) does.
parseNumericThrows(value) ==
    ~IsNullish(value) /\ value # S(<<>>) /\ ToStringThrows(value)

\* An exception is raised inside the try block: a conversion to string (or to
\* a property key) of a value that does not convert, or the structured clone
\* of a payload that holds a function (postMessage, worker.ts 133).
ReconcileThrows(validLots, validItems, validUsage) ==
    \/ \E i \in 1..Len(validItems) : ToStringThrows(validItems[i].item)
    \/ \E i \in 1..Len(validUsage) :
          ToStringThrows(validUsage[i].item) \/ ToStringThrows(validUsage[i].warehouse)
    \/ \E i \in 1..Len(validLots) :
          \/ ToStringThrows(validLots[i].item) \/ ToStringThrows(validLots[i].warehouse)
          \/ parseNumericThrows(validLots[i].onHand)
          \/ parseNumericThrows(validLots[i].committed)
          \/ parseNumericThrows(validLots[i].available)
    \/ LET groups == lotGroups(validLots) IN
       \E g \in 1..Len(groups) :
          LET itemDetails == itemsMapGet(validItems, groups[g].item)
              usageDetails == usageMapGet(validUsage, groups[g].key)
              vendor == OrElse(OrElse(itemDetails.primaryVendor, groups[g].vendor), Unknown)
              vendorCode == OrElse(itemDetails.vendorCode, vendorNameToCodeMap(vendor))
          IN  \/ parseNumericThrows(itemDetails.unitCost)
              \/ parseNumericThrows(usageDetails.monthlyAvg)
              \/ parseNumericThrows(usageDetails.min)
              \/ parseNumericThrows(usageDetails.max)
              \/ ToStringThrows(vendorCode)
              \/ MergedItem(groups[g], validItems, validUsage).leadTime = FUNCTION

Success(payload) == [type |-> "success", payload |-> payload]
Error == [type |-> "error", payload |-> <<>>]

\* The mutant loses the catch block's postMessage.
ReconcileNoCatch(lotData, itemsData, usageData) ==
    LET validLots == filterData(lotData, LotRequired)
        validItems == filterData(itemsData, ItemsRequired)
        validUsage == filterData(usageData, UsageRequired)
        groups == lotGroups(validLots)
    IN  IF validLots = <<>> \/ validUsage = <<>> THEN <<Success(<<>>)>>
        ELSE IF ReconcileThrows(validLots, validItems, validUsage) THEN <<>>
        ELSE <<Success([g \in 1..Len(groups) |-> MergedItem(groups[g], validItems, validUsage)])>>

\* The mutant tests for empty input only after the maps are built.
ReconcileLateCheck(lotData, itemsData, usageData) ==
    LET validLots == filterData(lotData, LotRequired)
        validItems == filterData(itemsData, ItemsRequired)
        validUsage == filterData(usageData, UsageRequired)
        groups == lotGroups(validLots)
    IN  IF ReconcileThrows(validLots, validItems, validUsage) THEN <<Error>>
        ELSE IF validLots = <<>> \/ validUsage = <<>> THEN <<Success(<<>>)>>
        ELSE <<Success([g \in 1..Len(groups) |-> MergedItem(groups[g], validItems, validUsage)])>>

\* The messages self.onmessage posts for one request, in order.
Reconcile(lotData, itemsData, usageData) ==
    LET validLots == filterData(lotData, LotRequired)
        validItems == filterData(itemsData, ItemsRequired)
        validUsage == filterData(usageData, UsageRequired)
        groups == lotGroups(validLots)
    IN  IF validLots = <<>> \/ validUsage = <<>> THEN <<Success(<<>>)>>
        ELSE IF ReconcileThrows(validLots, validItems, validUsage) THEN <<Error>>
        ELSE <<Success([g \in 1..Len(groups) |-> MergedItem(groups[g], validItems, validUsage)])>>

(***************************************************************************)
(* Field mapper (sanitize.ts).  A raw row is a function from the headers   *)
(* of its file to values; a header the row lacks reads undefined.          *)
(***************************************************************************)
lotMapping ==
    [item |-> <<"Item", "item">>, description |-> <<"Description", "description">>,
     warehouse |-> <<"WH", "wh", "Warehouse">>, location |-> <<"Location", "location">>,
     onHand |-> <<"On Hand", "onHand">>, committed |-> <<"Committed", "committed">>,
     available |-> <<"Available", "available">>, vendor |-> <<"Vendor", "vendor">>]
itemsMapping ==
    [item |-> <<"Item", "item">>, description |-> <<"Description", "description">>,
     unitCost |-> <<"Unit Loaded Cost", "Avg Cost", "unitCost">>,
     primaryVendor |-> <<"Primary Vendor", "primaryVendor">>,
     category |-> <<"Categories", "Item Category", "category">>, rpl |-> <<"RPL", "rpl">>,
     vendorCode |-> <<"Vendor Code", "vendorCode">>]
usageMapping ==
    [item |-> <<"Item", "item">>, warehouse |-> <<"WH", "wh", "Warehouse">>,
     monthlyAvg |-> <<"MO Avg", "monthlyAvg">>, min |-> <<"Min", "min">>,
     max |-> <<"Max", "max">>]
poMapping ==
    [po |-> <<"PO", "po">>, vendorName |-> <<"Vendor Name", "vendorName">>,
     warehouse |-> <<"WH", "wh", "Warehouse">>, ordDate |-> <<"Ord Date", "ordDate">>,
     shipDate |-> <<"Ship Date", "shipDate">>, status |-> <<"Status", "status">>,
     openTotal |-> <<"Open Total", "openTotal">>, item |-> <<"Item", "item">>,
     openQty |-> <<"Open", "open">>]
salesMapping ==
    [orderDate |-> <<"Order Date">>, wantedDate |-> <<"Wanted Date">>, warehouse |-> <<"WH">>,
     order |-> <<"Order">>, customerName |-> <<"Customer Name">>, item |-> <<"Item">>,
     description |-> <<"Description">>, qty |-> <<"Qty">>]
vendorsMapping ==
    [vendorCode |-> <<"Vendor Code", "Vendor">>, vendorName |-> <<"Vendor Name", "Name">>]
allMappings ==
    [lot |-> lotMapping, items |-> itemsMapping, usage |-> usageMapping, po |-> poMapping,
     sales |-> salesMapping, vendors |-> vendorsMapping]

\* row[header]
RowGet(row, header) == IF header \in DOMAIN row THEN row[header] ELSE UNDEF

\* The mutant lets a later alias overwrite an earlier one.
RECURSIVE LastPresent(_, _)
LastPresent(row, possibleHeaders) ==
    IF possibleHeaders = <<>> THEN NULL
    ELSE LET rest == LastPresent(row, Tail(possibleHeaders)) IN
         IF rest # NULL THEN rest
         ELSE IF ~IsNullish(RowGet(row, Head(possibleHeaders)))
              THEN RowGet(row, Head(possibleHeaders)) ELSE NULL

\* The inner loop of sanitizeRow: the value of the first header that is
\* neither undefined nor null, else null.
RECURSIVE FirstPresent(_, _)
FirstPresent(row, possibleHeaders) ==
    IF possibleHeaders = <<>> THEN NULL
    ELSE IF ~IsNullish(RowGet(row, Head(possibleHeaders)))
         THEN RowGet(row, Head(possibleHeaders))
         ELSE FirstPresent(row, Tail(possibleHeaders))

sanitizeRowLastAlias(row, mapping) ==
    [key \in DOMAIN mapping |-> LastPresent(row, mapping[key])]

sanitizeRow(row, mapping) ==
    [key \in DOMAIN mapping |-> FirstPresent(row, mapping[key])]

\* The mutant leaves the item as the parser typed it.
sanitizeDataNoString(data, type) ==
    IF type \notin DOMAIN allMappings THEN data
    ELSE [i \in 1..Len(data) |-> sanitizeRow(data[i], allMappings[type])]

\* sanitizeData: every row mapped, a non-null item turned into a string.
sanitizeData(data, type) ==
    IF type \notin DOMAIN allMappings THEN data
    ELSE [i \in 1..Len(data) |->
            LET sanitized == sanitizeRow(data[i], allMappings[type]) IN
            IF "item" \in DOMAIN sanitized /\ ~IsNullish(sanitized.item)
            THEN [sanitized EXCEPT !.item = S(ToStr(@))]
            ELSE sanitized]

(***************************************************************************)
(* State.  The worker thread: toWorker holds the requests posted to it and *)
(* not yet handled, toMain the messages it posted that the main thread has *)
(* not yet handled; handled is the request the worker handled last.        *)
(* A function taken alone: mapperIn is the argument drawn (for the field   *)
(* mapper the raw row and its record type), mapperOut what the call       *)
(* returned for it.                                                        *)
(***************************************************************************)
(* The hook (useDataProcessor): its React state allData, mergedInventory,  *)
(* filesLoaded, lastUpdated, isProcessing and massUploadSummary; hasLoaded *)
(* is the ref hasLoadedFromLocalStorage, papaLoaded the state of that      *)
(* name; parses holds the single-file parses started and not yet called    *)
(* back; batch is the bulk upload under way with its parseResults and, per *)
(* file, the callback that resolved it; posted counts the requests posted  *)
(* and ops the operations the user started.                                *)
(***************************************************************************)
VARIABLES toWorker, toMain, handled, mapperIn, mapperOut,
          allData, mergedInventory, filesLoaded, lastUpdated, isProcessing,
          massUploadSummary, hasLoaded, papaLoaded, parses, batch, posted, ops

workerVars == <<toWorker, toMain, handled>>
mapperVars == <<mapperIn, mapperOut>>
hookVars == <<allData, mergedInventory, filesLoaded, lastUpdated, isProcessing,
              massUploadSummary, hasLoaded, papaLoaded, parses, batch, posted, ops>>
vars == <<toWorker, toMain, handled, mapperIn, mapperOut, allData, mergedInventory,
          filesLoaded, lastUpdated, isProcessing, massUploadSummary, hasLoaded, papaLoaded,
          parses, batch, posted, ops>>

\* A request carries the three tables; id numbers the requests in the order
\* they were posted (the code has no such number: it is kept to tell the
\* requests apart).
Request(id, lotData, itemsData, usageData) ==
    [id |-> id, lotData |-> lotData, itemsData |-> itemsData, usageData |-> usageData]

NoRequest == Request(0, <<>>, <<>>, <<>>)

\* A message in the main thread's queue, with the number of the request it answers.
Answer(req, message) == [type |-> message.type, payload |-> message.payload, req |-> req.id]

DataTypes == {"lot", "items", "usage", "po", "sales", "vendors"}

\* lastUpdated: null, the text a saved session holds, or the text of the time
\* of an update; the clock is taken to advance between two updates, so the
\* times are numbered.
NoDate == [kind |-> "null", at |-> 0]
SavedDate == [kind |-> "saved", at |-> 0]
Stamp(previous) == [kind |-> "time", at |-> previous.at + 1]

\* useState initial values (useDataProcessor.ts 144-155).
NoData == [type \in DataTypes |-> <<>>]
NoFile == [name |-> "", count |-> 0]
NoFiles == [type \in DataTypes |-> NoFile]
NoSummary == [shown |-> FALSE, processed |-> <<>>, unidentified |-> <<>>]
NoBatch == [active |-> FALSE, files |-> <<>>, status |-> <<>>, types |-> <<>>,
            outcome |-> <<>>, newAllData |-> <<>>, newFilesLoaded |-> <<>>,
            processed |-> <<>>, unidentified |-> <<>>]

HookInitial ==
    /\ allData = NoData
    /\ mergedInventory = <<>>
    /\ filesLoaded = NoFiles
    /\ lastUpdated = NoDate
    /\ isProcessing = FALSE
    /\ massUploadSummary = NoSummary
    /\ hasLoaded = FALSE
    /\ papaLoaded = FALSE
    /\ parses = <<>>
    /\ batch = NoBatch
    /\ ops = 0

\* The mutant keeps the lot rows of the request before: the groups are built
\* over them too, as with a lotGroups map declared outside the handler.
WorkerOnMessageKeepsGroups ==
    /\ toWorker # <<>>
    /\ LET req == Head(toWorker)
           kept == [req EXCEPT !.lotData = handled.lotData \o req.lotData]
           posts == Reconcile(kept.lotData, kept.itemsData, kept.usageData) IN
       /\ toMain' = toMain \o [i \in 1..Len(posts) |-> Answer(req, posts[i])]
       /\ handled' = kept
    /\ toWorker' = Tail(toWorker)
    /\ UNCHANGED <<mapperVars, hookVars>>

\* self.onmessage: the worker takes the oldest request and posts its answer.
WorkerOnMessage ==
    /\ toWorker # <<>>
    /\ LET req == Head(toWorker)
           posts == Reconcile(req.lotData, req.itemsData, req.usageData) IN
       /\ toMain' = toMain \o [i \in 1..Len(posts) |-> Answer(req, posts[i])]
       /\ handled' = req
    /\ toWorker' = Tail(toWorker)
    /\ UNCHANGED <<mapperVars, hookVars>>

NoRow == [type |-> "none", row |-> <<>>]
NoRecord == [done |-> FALSE, rec |-> <<>>]
MapperIdle == mapperIn = NoRow /\ mapperOut = NoRecord

(***************************************************************************)
(* The reconciler alone: one request drawn from bounded tables.            *)
(***************************************************************************)
MaxLots == 2

SeqsUpTo(set, max) == UNION {[1..k -> set] : k \in 0..max}

Sa == S(<<"a">>)
Saa == S(<<"a", "-", "a">>)
Blank == S(<<" ">>)
Empty == S(<<>>)

LotRow(item, warehouse, p) ==
    IF p = 1
    THEN [item |-> item, warehouse |-> warehouse, description |-> NULL, vendor |-> S(<<"v">>),
          location |-> S(<<"l">>), onHand |-> N(2), committed |-> N(1), available |-> N(1)]
    ELSE [item |-> item, warehouse |-> warehouse, description |-> S(<<"d">>), vendor |-> NULL,
          location |-> NULL, onHand |-> S(<<"1", ",", "0">>), committed |-> Empty,
          available |-> S(<<"x">>)]

LotRows ==
    {LotRow(item, warehouse, p) :
        item \in {NULL, Blank, Sa, Saa}, warehouse \in {UNDEF, Empty, Sa, Saa}, p \in {1, 2}}

ItemRow(item, unitCost) ==
    [item |-> item, description |-> S(<<"i">>), unitCost |-> unitCost, primaryVendor |-> NULL,
     category |-> NULL, rpl |-> NULL, vendorCode |-> NULL]

ItemTables ==
    {<<>>,
     <<ItemRow(Sa, N(3))>>,
     <<ItemRow(Saa, S(<<"2">>)), ItemRow(Blank, N(5)), ItemRow(Saa, N(4)), ItemRow(NULL, N(7))>>,
     <<ItemRow(Sa, BAD)>>,
     <<ItemRow(BAD, N(1))>>}

UsageRow(item, warehouse, monthlyAvg) ==
    [item |-> item, warehouse |-> warehouse, monthlyAvg |-> monthlyAvg, min |-> N(1),
     max |-> NULL]

UsageTables ==
    {<<>>,
     <<UsageRow(Sa, Sa, N(6))>>,
     <<UsageRow(Saa, Sa, S(<<"1", "2">>)), UsageRow(Sa, Blank, N(9)), UsageRow(UNDEF, Sa, N(8))>>,
     <<UsageRow(Sa, NULL, N(6)), UsageRow(Blank, Sa, N(6))>>}

InitReconcile ==
    /\ \E lotData \in SeqsUpTo(LotRows, MaxLots), itemsData \in ItemTables,
          usageData \in UsageTables :
          toWorker = <<Request(1, lotData, itemsData, usageData)>>
    /\ toMain = <<>>
    /\ handled = NoRequest
    /\ MapperIdle
    /\ HookInitial
    /\ posted = 1

NextReconcile == WorkerOnMessage

SpecReconcile == InitReconcile /\ [][NextReconcile]_vars

(***************************************************************************)
(* Properties of the reconciler (SpecReconcile).                           *)
(***************************************************************************)
\* A value the validator must reject: null, undefined or a string of blanks.
IsBlankValue(v) ==
    IsNullish(v) \/ (v.t = "str" /\ \A i \in 1..Len(v.s) : v.s[i] \in WhiteSpace)

KeepRows(rows, fields) ==
    SelectSeq(rows, LAMBDA r : \A f \in fields : ~IsBlankValue(r[f]))

GoodLots == KeepRows(handled.lotData, {"item", "warehouse"})
GoodItems == KeepRows(handled.itemsData, {"item"})
GoodUsage == KeepRows(handled.usageData, {"item", "warehouse"})

RECURSIVE SumSeq(_)
SumSeq(seq) == IF seq = <<>> THEN 0 ELSE Head(seq) + SumSeq(Tail(seq))

Range(seq) == {seq[i] : i \in 1..Len(seq)}

\* The worker has answered the request with a non-empty reconciled array.
Reconciled == toMain # <<>> /\ toMain[1].type = "success" /\ toMain[1].payload # <<>>
Payload == toMain[1].payload

StringKeyed(rows) ==
    \A i \in 1..Len(rows) : rows[i].item.t = "str" /\ rows[i].warehouse.t = "str"

LotPairs == {<<GoodLots[i].item, GoodLots[i].warehouse>> : i \in 1..Len(GoodLots)}

\* C1 (as claimed): the output holds exactly one record per distinct
\* (item, warehouse) pair of the valid lot rows, items and warehouses being
\* arbitrary non-blank strings.
C1_OneRecordPerPair ==
    (Reconciled /\ StringKeyed(GoodLots)) =>
        /\ Len(Payload) = Cardinality(LotPairs)
        /\ \A pair \in LotPairs :
              Cardinality({k \in 1..Len(Payload) :
                  S(Payload[k].item) = pair[1] /\ Payload[k].warehouse = pair[2]}) = 1

LotsOfPair(item, warehouse) ==
    SelectSeq(GoodLots, LAMBDA r : r.item = S(item) /\ r.warehouse = warehouse)

SumOf(rows, field) == SumSeq([i \in 1..Len(rows) |-> parseNumeric(rows[i][field])])

\* C2 (as claimed): each record's onHand, committed and available are the sums
\* of the normalized quantities of the valid lot rows of the record's item and
\* warehouse.
C2_SumsPerPair ==
    (Reconciled /\ StringKeyed(GoodLots)) =>
        \A k \in 1..Len(Payload) :
            LET rows == LotsOfPair(Payload[k].item, Payload[k].warehouse) IN
            /\ Payload[k].onHand = SumOf(rows, "onHand")
            /\ Payload[k].committed = SumOf(rows, "committed")
            /\ Payload[k].available = SumOf(rows, "available")

LotsOfKey(key) ==
    SelectSeq(GoodLots, LAMBDA r : ToStr(r.item) \o <<"-">> \o ToStr(r.warehouse) = key)

\* C3: rows with a null, undefined or blank required field take no part in the
\* output: no record has a blank item or warehouse, and each record's sums,
\* locations, description, vendor, cost and usage figures come from rows whose
\* required fields are all present.
C3_InvalidRowsDropped ==
    Reconciled =>
        \A k \in 1..Len(Payload) :
            LET rec == Payload[k]
                rows == LotsOfKey(rec.id)
            IN  /\ ~IsBlankValue(S(rec.item)) /\ ~IsBlankValue(rec.warehouse)
                /\ rows # <<>>
                /\ rec.onHand = SumOf(rows, "onHand")
                /\ rec.committed = SumOf(rows, "committed")
                /\ rec.available = SumOf(rows, "available")
                /\ Range(rec.locations) = {r.location : r \in {x \in Range(rows) : Truthy(x.location)}}
                /\ Truthy(rec.description) =>
                      \/ rec.description \in {r.description : r \in Range(rows)}
                      \/ rec.description \in {r.description : r \in Range(GoodItems)}
                /\ rec.vendor # Unknown =>
                      \/ rec.vendor \in {r.vendor : r \in Range(rows)}
                      \/ rec.vendor \in {r.primaryVendor : r \in Range(GoodItems)}
                /\ rec.unitCost # 0 =>
                      \E r \in Range(GoodItems) :
                          r.item = S(rec.item) /\ parseNumeric(r.unitCost) = rec.unitCost
                /\ rec.monthlyAvg # 0 =>
                      \E r \in Range(GoodUsage) :
                          /\ ToStr(r.item) \o <<"-">> \o ToStr(r.warehouse) = rec.id
                          /\ parseNumeric(r.monthlyAvg) = rec.monthlyAvg

HasBlankRow(rows, fields) == \E r \in Range(rows) : \E f \in fields : IsBlankValue(r[f])

\* C3 witness: a non-empty result for a request whose lot, item and usage
\* tables each hold a row that had to be dropped.
C3_Witness ==
    /\ Reconciled
    /\ HasBlankRow(handled.lotData, {"item", "warehouse"})
    /\ HasBlankRow(handled.itemsData, {"item"})
    /\ HasBlankRow(handled.usageData, {"item", "warehouse"})

\* C4: with no valid lot row or no valid usage row the answer is the single
\* message success([]), whatever the item table holds.
C4_EmptyInputIsEmptySuccess ==
    (toMain # <<>> /\ (GoodLots = <<>> \/ GoodUsage = <<>>)) =>
        Len(toMain) = 1 /\ toMain[1].type = "success" /\ toMain[1].payload = <<>>

\* C4 witness: valid lot rows, no valid usage row, and an item table whose
\* indexing would have thrown; the answer is success([]).
C4_Witness ==
    /\ Len(toMain) = 1 /\ toMain[1].type = "success" /\ toMain[1].payload = <<>>
    /\ GoodLots # <<>> /\ handled.usageData # <<>> /\ GoodUsage = <<>>
    /\ \E r \in Range(handled.itemsData) : r.item = BAD

(***************************************************************************)
(* The field mapper alone: one raw row of one record type, drawn from the  *)
(* rows over at most MaxHeaders of the type's headers and a foreign one.   *)
(***************************************************************************)
MaxHeaders == 2

RecordTypes == DOMAIN allMappings

HeadersOf(type) ==
    UNION {Range(allMappings[type][key]) : key \in DOMAIN allMappings[type]} \cup {"Notes"}

CellValues == {NULL, UNDEF, Empty, Sa, N(7)}

RawRows(type) ==
    UNION {[hs -> CellValues] :
              hs \in {h \in SUBSET HeadersOf(type) : Cardinality(h) <= MaxHeaders}}

InitSanitize ==
    /\ \E type \in RecordTypes : \E row \in RawRows(type) :
          mapperIn = [type |-> type, row |-> row]
    /\ mapperOut = NoRecord
    /\ toWorker = <<>> /\ toMain = <<>> /\ handled = NoRequest
    /\ HookInitial
    /\ posted = 0

\* sanitizeRow(row, mapping) on the row drawn.
SanitizeRowCall ==
    /\ ~mapperOut.done
    /\ mapperOut' = [done |-> TRUE, rec |-> sanitizeRow(mapperIn.row, allMappings[mapperIn.type])]
    /\ UNCHANGED <<mapperIn, workerVars, hookVars>>

NextSanitize == SanitizeRowCall

SpecSanitize == InitSanitize /\ [][NextSanitize]_vars

\* The positions of the aliases of a field that hold a value in the row.
PresentAt(row, aliases) ==
    {i \in 1..Len(aliases) : aliases[i] \in DOMAIN row /\ row[aliases[i]] \notin {NULL, UNDEF}}

\* C10: the record has exactly the logical fields of the type; each field holds
\* the value of the earliest alias present with a non-null value, and null
\* when there is none.
C10_FirstAliasWins ==
    mapperOut.done =>
        LET mapping == allMappings[mapperIn.type]
            row == mapperIn.row
            rec == mapperOut.rec
        IN  /\ DOMAIN rec = DOMAIN mapping
            /\ \A key \in DOMAIN mapping :
                  LET at == PresentAt(row, mapping[key]) IN
                  IF at = {} THEN rec[key] = NULL
                  ELSE \E i \in at : (\A j \in at : i <= j) /\ rec[key] = row[mapping[key][i]]

\* C10 witness: a row holding two aliases of one field with different values;
\* the record took the earlier one.
C10_Witness ==
    /\ mapperOut.done
    /\ \E key \in DOMAIN allMappings[mapperIn.type] :
          LET aliases == allMappings[mapperIn.type][key]
              at == PresentAt(mapperIn.row, aliases)
          IN  /\ Cardinality(at) > 1
              /\ \E i, j \in at :
                    /\ i < j /\ mapperIn.row[aliases[i]] # mapperIn.row[aliases[j]]
                    /\ mapperOut.rec[key] = mapperIn.row[aliases[i]]

(***************************************************************************)
(* Bulk-upload classifier (useDataProcessor.ts 305-347).                   *)
(***************************************************************************)
\* fileSignatures in declaration order; a group is the set of its aliases.
fileSignatures == <<
    [type |-> "po", required |-> <<{"PO", "po"}>>,
     optional |-> <<{"Ord Date", "ordDate"}, {"Open Total", "openTotal"}, {"Open", "open"}>>,
     minOptional |-> 1],
    [type |-> "sales", required |-> <<{"Customer Name"}, {"Order"}>>,
     optional |-> <<{"Wanted Date"}>>, minOptional |-> 0],
    [type |-> "lot", required |-> <<{"On Hand", "onHand"}, {"Available", "available"}>>,
     optional |-> <<{"Committed", "committed"}>>, minOptional |-> 0],
    [type |-> "items", required |-> <<{"Unit Loaded Cost", "Avg Cost", "unitCost"}>>,
     optional |-> <<{"Primary Vendor", "primaryVendor"}, {"Item Category", "category"}>>,
     minOptional |-> 1],
    [type |-> "usage", required |-> <<{"MO Avg", "monthlyAvg"}>>,
     optional |-> <<{"Min", "min"}, {"Max", "max"}>>, minOptional |-> 0],
    [type |-> "vendors", required |-> <<{"Vendor Code", "Vendor"}, {"Vendor Name", "Name"}>>,
     optional |-> <<>>, minOptional |-> 0]
>>

\* group.some(h => headers.includes(h))
headersMatch(headers, group) == group \cap Range(headers) # {}

optionalMetCount(headers, sigs) ==
    Cardinality({i \in 1..Len(sigs.optional) : headersMatch(headers, sigs.optional[i])})

NoMatch == [type |-> "", score |-> 0]

\* The mutant leaves out the minOptional gate.
RECURSIVE bestMatchNoGate(_, _)
bestMatchNoGate(headers, k) ==
    IF k = 0 THEN NoMatch
    ELSE LET best == bestMatchNoGate(headers, k - 1)
             sigs == fileSignatures[k]
             requiredMet == \A i \in 1..Len(sigs.required) : headersMatch(headers, sigs.required[i])
             score == Len(sigs.required) + optionalMetCount(headers, sigs)
         IN  IF ~requiredMet THEN best
             ELSE IF score > best.score THEN [type |-> sigs.type, score |-> score]
             ELSE best

\* The mutant lets a later type replace the best on an equal score.
RECURSIVE bestMatchLastWins(_, _)
bestMatchLastWins(headers, k) ==
    IF k = 0 THEN NoMatch
    ELSE LET best == bestMatchLastWins(headers, k - 1)
             sigs == fileSignatures[k]
             requiredMet == \A i \in 1..Len(sigs.required) : headersMatch(headers, sigs.required[i])
             met == optionalMetCount(headers, sigs)
             score == Len(sigs.required) + met
         IN  IF ~requiredMet THEN best
             ELSE IF met < sigs.minOptional THEN best
             ELSE IF score >= best.score THEN [type |-> sigs.type, score |-> score]
             ELSE best

\* The loop over fileSignatures: bestMatch after the first k signatures.
RECURSIVE bestMatch(_, _)
bestMatch(headers, k) ==
    IF k = 0 THEN NoMatch
    ELSE LET best == bestMatch(headers, k - 1)
             sigs == fileSignatures[k]
             requiredMet == \A i \in 1..Len(sigs.required) : headersMatch(headers, sigs.required[i])
             met == optionalMetCount(headers, sigs)
             score == Len(sigs.required) + met
         IN  IF ~requiredMet THEN best
             ELSE IF met < sigs.minOptional THEN best
             ELSE IF score > best.score THEN [type |-> sigs.type, score |-> score]
             ELSE best

\* identifiedType; "" stands for null.
identifiedType(headers) == bestMatch(headers, Len(fileSignatures)).type

(***************************************************************************)
(* The hook's operations (useDataProcessor.ts 142-407).                    *)
(***************************************************************************)
\* An effect that lists every record set among its dependencies.
ReconcileInputsAll == DataTypes

ReconcileInputs == {"lot", "items", "usage"}

\* The reconcile effect (238-247) running on the tables `data`, after a
\* handler that left isProcessing at `processing`.
ReconcileEffect(data, processing) ==
    IF data.lot # <<>> /\ data.usage # <<>>
    THEN /\ isProcessing' = TRUE
         /\ posted' = posted + 1
         /\ toWorker' = Append(toWorker, Request(posted + 1, data.lot, data.items, data.usage))
         /\ UNCHANGED mergedInventory
    ELSE /\ mergedInventory' = <<>>
         /\ isProcessing' = processing
         /\ UNCHANGED <<toWorker, posted>>

\* The effect does not run: none of lotData, itemsData, usageData changed identity.
NoReconcileEffect(processing) ==
    /\ isProcessing' = processing
    /\ UNCHANGED <<mergedInventory, toWorker, posted>>

FileInfo(file) == [name |-> file.name, count |-> Len(file.rows)]

\* Every promise of parsePromises is resolved: the then-callback of
\* Promise.all is a microtask and runs before any other event is handled.
AllResolved == batch.active /\ \A i \in 1..Len(batch.files) : batch.status[i] = "done"
NoMicrotask == ~AllResolved

MaxOps == 2

\* worker.onmessage (177-195): the main thread handles the oldest message.
OnWorkerMessage ==
    /\ NoMicrotask
    /\ toMain # <<>>
    /\ Head(toMain).type \in {"success", "error", "other"}
    /\ LET message == Head(toMain) IN
       mergedInventory' = CASE message.type = "error" -> <<>>
                            [] message.type = "success" -> message.payload
                            [] OTHER -> <<>>
    /\ isProcessing' = FALSE
    /\ toMain' = Tail(toMain)
    /\ UNCHANGED <<toWorker, handled, mapperVars, allData, filesLoaded, lastUpdated, massUploadSummary,
                   hasLoaded, papaLoaded, parses, batch, posted, ops>>

\* The mount effect that restores the saved session (210-236), followed by
\* the reconcile effect of the same mount and of the render it causes.
\* saved.kind is "none" (nothing stored), "corrupt" (JSON.parse throws) or "data".
RestoreSessionOf(saved) ==
    /\ ~hasLoaded
    /\ hasLoaded' = TRUE
    /\ IF saved.kind = "data"
       THEN /\ allData' = saved.data
            /\ filesLoaded' = saved.filesLoaded
            /\ lastUpdated' = SavedDate
            /\ ReconcileEffect(saved.data, FALSE)
       ELSE /\ UNCHANGED <<allData, filesLoaded, lastUpdated>>
            /\ ReconcileEffect(allData, FALSE)
    /\ UNCHANGED <<toMain, handled, mapperVars, massUploadSummary, papaLoaded, parses, batch, ops>>

\* script.onload of the parser script (165).
PapaOnLoad ==
    /\ ~papaLoaded
    /\ papaLoaded' = TRUE
    /\ UNCHANGED <<workerVars, mapperVars, allData, mergedInventory, filesLoaded, lastUpdated, isProcessing,
                   massUploadSummary, hasLoaded, parses, batch, posted, ops>>

\* saveData (249-259): isProcessing is set and cleared in one handler.
SaveData ==
    /\ hasLoaded /\ NoMicrotask
    /\ isProcessing' = FALSE
    /\ UNCHANGED <<workerVars, mapperVars, allData, mergedInventory, filesLoaded, lastUpdated,
                   massUploadSummary, hasLoaded, papaLoaded, parses, batch, posted, ops>>

\* handleFileUpload (269-276): the parse of the file is started.
HandleFileUploadOf(file, type) ==
    /\ hasLoaded /\ NoMicrotask
    /\ papaLoaded
    /\ ops < MaxOps
    /\ ops' = ops + 1
    /\ isProcessing' = TRUE
    /\ parses' = Append(parses, [file |-> file, type |-> type])
    /\ UNCHANGED <<workerVars, mapperVars, allData, mergedInventory, filesLoaded, lastUpdated,
                   massUploadSummary, hasLoaded, papaLoaded, batch, posted>>

RemoveAt(seq, i) == SubSeq(seq, 1, i - 1) \o SubSeq(seq, i + 1, Len(seq))

\* The mutant appends the rows of the new file to the record set of the type.
UploadCompleteAppends(i) ==
    /\ NoMicrotask
    /\ i \in 1..Len(parses)
    /\ LET file == parses[i].file
           type == parses[i].type
           sanitized == sanitizeData(file.rows, type)
           data == [allData EXCEPT ![type] = @ \o sanitized]
       IN  /\ allData' = data
           /\ filesLoaded' = [filesLoaded EXCEPT ![type] = FileInfo(file)]
           /\ lastUpdated' = Stamp(lastUpdated)
           /\ IF type \in ReconcileInputs
              THEN ReconcileEffect(data, FALSE)
              ELSE NoReconcileEffect(FALSE)
    /\ parses' = RemoveAt(parses, i)
    /\ UNCHANGED <<toMain, handled, mapperVars, massUploadSummary, hasLoaded, papaLoaded, batch,
                   ops>>

\* complete (278-287) of the i-th pending parse, and the reconcile effect.
UploadCompleteOf(i) ==
    /\ NoMicrotask
    /\ i \in 1..Len(parses)
    /\ LET file == parses[i].file
           type == parses[i].type
           sanitized == sanitizeData(file.rows, type)
           data == [allData EXCEPT ![type] = sanitized]
       IN  /\ allData' = data
           /\ filesLoaded' = [filesLoaded EXCEPT ![type] = FileInfo(file)]
           /\ lastUpdated' = Stamp(lastUpdated)
           /\ IF type \in ReconcileInputs
              THEN ReconcileEffect(data, FALSE)
              ELSE NoReconcileEffect(FALSE)
    /\ parses' = RemoveAt(parses, i)
    /\ UNCHANGED <<toMain, handled, mapperVars, massUploadSummary, hasLoaded, papaLoaded, batch,
                   ops>>

\* error (288-292) of the i-th pending parse.
UploadErrorOf(i) ==
    /\ NoMicrotask
    /\ i \in 1..Len(parses)
    /\ parses' = RemoveAt(parses, i)
    /\ isProcessing' = FALSE
    /\ UNCHANGED <<workerVars, mapperVars, allData, mergedInventory, filesLoaded, lastUpdated,
                   massUploadSummary, hasLoaded, papaLoaded, batch, posted, ops>>

\* clearData (261-267), and the reconcile effect on the emptied tables.
ClearData ==
    /\ hasLoaded /\ NoMicrotask
    /\ ops < MaxOps
    /\ ops' = ops + 1
    /\ allData' = NoData
    /\ filesLoaded' = NoFiles
    /\ lastUpdated' = NoDate
    /\ ReconcileEffect(NoData, isProcessing)
    /\ UNCHANGED <<toMain, handled, mapperVars, massUploadSummary, hasLoaded, papaLoaded, parses,
                   batch>>

EmptyMap == [type \in {} |-> <<>>]

\* handleMassUpload (296-378): every file's preview parse is started.
HandleMassUploadOf(files) ==
    /\ hasLoaded /\ NoMicrotask
    /\ papaLoaded
    /\ ~batch.active
    /\ ops < MaxOps
    /\ ops' = ops + 1
    /\ isProcessing' = TRUE
    /\ massUploadSummary' = NoSummary
    /\ batch' = [active |-> TRUE, files |-> files,
                 status |-> [i \in 1..Len(files) |-> "preview"],
                 types |-> [i \in 1..Len(files) |-> ""],
                 outcome |-> [i \in 1..Len(files) |-> "pending"],
                 newAllData |-> EmptyMap, newFilesLoaded |-> EmptyMap,
                 processed |-> <<>>, unidentified |-> <<>>]
    /\ UNCHANGED <<workerVars, mapperVars, allData, mergedInventory, filesLoaded, lastUpdated,
                   hasLoaded, papaLoaded, parses, posted>>

BatchFrame ==
    UNCHANGED <<workerVars, mapperVars, allData, mergedInventory, filesLoaded, lastUpdated, isProcessing,
                massUploadSummary, hasLoaded, papaLoaded, parses, posted, ops>>

\* The mutant gives up the whole batch when one file is not identified.
PreviewCompleteAborts(i) ==
    /\ batch.active /\ i \in 1..Len(batch.files) /\ batch.status[i] = "preview"
    /\ LET type == identifiedType(batch.files[i].headers) IN
       IF type # ""
       THEN batch' = [batch EXCEPT !.status[i] = "full", !.types[i] = type]
       ELSE batch' = [batch EXCEPT !.status = [k \in 1..Len(batch.files) |-> "done"],
                                   !.outcome[i] = "unidentified",
                                   !.unidentified = Append(@, batch.files[i].name)]
    /\ BatchFrame

\* complete of the preview parse of file i (325-372): the file is classified
\* and its full parse started, or it is listed as unidentified.
PreviewCompleteOf(i) ==
    /\ batch.active /\ i \in 1..Len(batch.files) /\ batch.status[i] = "preview"
    /\ LET type == identifiedType(batch.files[i].headers) IN
       IF type # ""
       THEN batch' = [batch EXCEPT !.status[i] = "full", !.types[i] = type]
       ELSE batch' = [batch EXCEPT !.status[i] = "done", !.outcome[i] = "unidentified",
                                   !.unidentified = Append(@, batch.files[i].name)]
    /\ BatchFrame

\* error of the preview parse of file i (373-376).
PreviewErrorOf(i) ==
    /\ batch.active /\ i \in 1..Len(batch.files) /\ batch.status[i] = "preview"
    /\ batch' = [batch EXCEPT !.status[i] = "done", !.outcome[i] = "readError"]
    /\ BatchFrame

\* The mutant applies the table of a file as soon as the file is parsed.
FullCompleteApplies(i) ==
    /\ batch.active /\ i \in 1..Len(batch.files) /\ batch.status[i] = "full"
    /\ LET file == batch.files[i]
           type == batch.types[i]
       IN  /\ batch' = [batch EXCEPT
                          !.status[i] = "done", !.outcome[i] = "parsed",
                          !.newAllData = (type :> sanitizeData(file.rows, type)) @@ @,
                          !.newFilesLoaded = (type :> FileInfo(file)) @@ @,
                          !.processed = Append(@, [type |-> type, file |-> FileInfo(file)])]
           /\ allData' = [allData EXCEPT ![type] = sanitizeData(file.rows, type)]
    /\ UNCHANGED <<workerVars, mapperVars, mergedInventory, filesLoaded, lastUpdated,
                   isProcessing, massUploadSummary, hasLoaded, papaLoaded, parses, posted, ops>>

\* complete of the full parse of file i (354-362).
FullCompleteOf(i) ==
    /\ batch.active /\ i \in 1..Len(batch.files) /\ batch.status[i] = "full"
    /\ LET file == batch.files[i]
           type == batch.types[i]
       IN  batch' = [batch EXCEPT
                        !.status[i] = "done", !.outcome[i] = "parsed",
                        !.newAllData = (type :> sanitizeData(file.rows, type)) @@ @,
                        !.newFilesLoaded = (type :> FileInfo(file)) @@ @,
                        !.processed = Append(@, [type |-> type, file |-> FileInfo(file)])]
    /\ BatchFrame

\* error of the full parse of file i (363-366).
FullErrorOf(i) ==
    /\ batch.active /\ i \in 1..Len(batch.files) /\ batch.status[i] = "full"
    /\ batch' = [batch EXCEPT !.status[i] = "done", !.outcome[i] = "parseError"]
    /\ BatchFrame

\* { ...prev, ...parseResults.newAllData }
Merge(prev, new) == [type \in DOMAIN prev |-> IF type \in DOMAIN new THEN new[type] ELSE prev[type]]

\* Promise.all(parsePromises).then (380-398), and the reconcile effect.
MassUploadDone ==
    /\ AllResolved
    /\ IF batch.processed # <<>>
       THEN LET data == Merge(allData, batch.newAllData) IN
            /\ allData' = data
            /\ filesLoaded' = Merge(filesLoaded, batch.newFilesLoaded)
            /\ lastUpdated' = Stamp(lastUpdated)
            /\ IF DOMAIN batch.newAllData \cap ReconcileInputs # {}
               THEN ReconcileEffect(data, FALSE)
               ELSE NoReconcileEffect(FALSE)
       ELSE /\ UNCHANGED <<allData, filesLoaded, lastUpdated>>
            /\ NoReconcileEffect(FALSE)
    /\ massUploadSummary' =
          IF batch.processed # <<>> \/ batch.unidentified # <<>>
          THEN [shown |-> TRUE, processed |-> batch.processed,
                unidentified |-> batch.unidentified]
          ELSE massUploadSummary
    /\ batch' = NoBatch
    /\ UNCHANGED <<toMain, handled, mapperVars, hasLoaded, papaLoaded, parses, ops>>

(***************************************************************************)
(* The hook and its worker: the files a user may pick and the sessions     *)
(* localStorage may hold.                                                  *)
(***************************************************************************)
File(name, headers, rows) == [name |-> name, headers |-> headers, rows |-> rows]

\* Papa.parse with header and dynamicTyping: one function per line, numbers typed.
LotFileA ==
    File("lotA.csv", <<"Item", "WH", "On Hand", "Available">>,
         <<("Item" :> N(7)) @@ ("WH" :> Sa) @@ ("On Hand" :> N(2)) @@ ("Available" :> N(1)),
           ("Item" :> N(7)) @@ ("WH" :> Sa) @@ ("On Hand" :> S(<<"1", ",", "0">>))
               @@ ("Available" :> N(3))>>)
LotFileB ==
    File("lotB.csv", <<"item", "Warehouse", "onHand", "available", "committed">>,
         <<("item" :> N(7)) @@ ("Warehouse" :> Sa) @@ ("onHand" :> N(5)) @@ ("available" :> N(4))
               @@ ("committed" :> N(1)),
           ("item" :> N(7)) @@ ("Warehouse" :> Blank) @@ ("onHand" :> N(9))
               @@ ("available" :> N(9)) @@ ("committed" :> NULL)>>)
UsageFile ==
    File("usage.csv", <<"Item", "WH", "MO Avg", "Min">>,
         <<("Item" :> N(7)) @@ ("WH" :> Sa) @@ ("MO Avg" :> N(60)) @@ ("Min" :> NULL)>>)
ItemsFile ==
    File("items.csv", <<"Item", "Avg Cost", "Primary Vendor">>,
         <<("Item" :> N(7)) @@ ("Avg Cost" :> N(3)) @@ ("Primary Vendor" :> S(<<"v">>))>>)
PoFile ==
    File("po.csv", <<"PO", "Open", "Item">>,
         <<("PO" :> N(1)) @@ ("Open" :> N(2)) @@ ("Item" :> N(7))>>)
SalesFile ==
    File("sales.csv", <<"Order", "Item", "Qty">>,
         <<("Order" :> N(4)) @@ ("Item" :> N(7)) @@ ("Qty" :> N(2))>>)
VendorsFile ==
    File("vendors.csv", <<"Vendor Code", "Vendor Name">>,
         <<("Vendor Code" :> S(<<"v">>)) @@ ("Vendor Name" :> Sa)>>)
OtherFile == File("notes.csv", <<"Notes">>, <<("Notes" :> Sa)>>)

\* The single uploads offered: a file and the box it is dropped in.
Uploads ==
    {<<LotFileA, "lot">>, <<LotFileB, "lot">>, <<UsageFile, "usage">>, <<ItemsFile, "items">>,
     <<PoFile, "po">>, <<SalesFile, "sales">>, <<VendorsFile, "vendors">>}

\* The bulk uploads offered.
Batches == {<<>>, <<LotFileA, UsageFile>>, <<PoFile, OtherFile>>, <<LotFileA, LotFileB>>}

SavedData(itemsData) ==
    [kind |-> "data",
     data |-> [NoData EXCEPT !.lot = sanitizeData(LotFileA.rows, "lot"),
                             !.usage = sanitizeData(UsageFile.rows, "usage"),
                             !.items = itemsData],
     filesLoaded |-> [NoFiles EXCEPT !.lot = FileInfo(LotFileA), !.usage = FileInfo(UsageFile)]]

\* What localStorage holds at mount: nothing, text that does not parse, a saved
\* session, or a session whose item table holds a value String() rejects.
SavedSessions ==
    {[kind |-> "none", data |-> NoData, filesLoaded |-> NoFiles],
     [kind |-> "corrupt", data |-> NoData, filesLoaded |-> NoFiles],
     SavedData(<<>>),
     SavedData(<<ItemRow(S(<<"7">>), BAD)>>)}

Init ==
    /\ toWorker = <<>> /\ toMain = <<>> /\ handled = NoRequest
    /\ MapperIdle
    /\ HookInitial
    /\ posted = 0

RestoreSession == \E saved \in SavedSessions : RestoreSessionOf(saved)
HandleFileUpload == \E u \in Uploads : HandleFileUploadOf(u[1], u[2])
UploadComplete == \E i \in 1..Len(parses) : UploadCompleteOf(i)
UploadError == \E i \in 1..Len(parses) : UploadErrorOf(i)
HandleMassUpload == \E files \in Batches : HandleMassUploadOf(files)
PreviewComplete == \E i \in 1..Len(batch.files) : PreviewCompleteOf(i)
PreviewError == \E i \in 1..Len(batch.files) : PreviewErrorOf(i)
FullComplete == \E i \in 1..Len(batch.files) : FullCompleteOf(i)
FullError == \E i \in 1..Len(batch.files) : FullErrorOf(i)

Next ==
    \/ RestoreSession
    \/ PapaOnLoad
    \/ SaveData
    \/ ClearData
    \/ HandleFileUpload
    \/ UploadComplete
    \/ UploadError
    \/ HandleMassUpload
    \/ PreviewComplete
    \/ PreviewError
    \/ FullComplete
    \/ FullError
    \/ MassUploadDone
    \/ WorkerOnMessage
    \/ OnWorkerMessage

Spec == Init /\ [][Next]_vars

(***************************************************************************)
(* The hook with a worker that can fail outside its try block (the script  *)
(* of the worker dies while a request is being handled): the browser then  *)
(* fires the error event of the Worker object instead of a message.        *)
(***************************************************************************)
ErrorEvent(req) == [type |-> "errorevent", payload |-> <<>>, req |-> req.id]

\* The worker dies on the oldest request; the main thread is sent an error event.
WorkerFails ==
    /\ toWorker # <<>>
    /\ toMain' = Append(toMain, ErrorEvent(Head(toWorker)))
    /\ handled' = Head(toWorker)
    /\ toWorker' = Tail(toWorker)
    /\ UNCHANGED <<mapperVars, hookVars>>

\* worker.onerror (197-202): notifies and clears isProcessing, nothing else.
OnWorkerError ==
    /\ NoMicrotask
    /\ toMain # <<>>
    /\ Head(toMain).type = "errorevent"
    /\ isProcessing' = FALSE
    /\ toMain' = Tail(toMain)
    /\ UNCHANGED <<toWorker, handled, mapperVars, allData, mergedInventory, filesLoaded, lastUpdated,
                   massUploadSummary, hasLoaded, papaLoaded, parses, batch, posted, ops>>

NextFault == Next \/ WorkerFails \/ OnWorkerError

SpecFault == Init /\ [][NextFault]_vars

\* The main thread takes the oldest answer of the worker off its queue.
Handles == toMain # <<>> /\ toMain' = Tail(toMain)

\* C6: when the hook handles a failure (an error response, a message of
\* unexpected shape, or an error event of the worker), mergedInventory is the
\* empty array afterwards.
C6_NoStaleOutputAfterFailure ==
    [][(Handles /\ Head(toMain).type # "success") => mergedInventory' = <<>>]_vars

\* C7: the result of a request that is no longer the latest one posted is
\* never written to mergedInventory.
C7_StaleResultDiscarded ==
    [][(Handles /\ Head(toMain).type = "success" /\ Head(toMain).req # posted)
          => mergedInventory' = mergedInventory]_vars

\* C8: at most one request is posted to the worker and not yet answered.
C8_OneInFlight == Len(toWorker) <= 1

\* The reconciliation of the tables the hook holds.
Recomputed ==
    IF allData.lot = <<>> \/ allData.usage = <<>> THEN <<>>
    ELSE LET posts == Reconcile(allData.lot, allData.items, allData.usage) IN
         IF posts[1].type = "success" THEN posts[1].payload ELSE <<>>

\* C9: once every request has been answered and every answer handled,
\* mergedInventory is the reconciliation of the current tables.
C9_RecomputedFromCurrentTables ==
    (toWorker = <<>> /\ toMain = <<>>) => mergedInventory = Recomputed

(***************************************************************************)
(* The worker alone, with the scheduling of its event loop: a queue of at  *)
(* most MaxQueue requests, each handled in turn.                           *)
(***************************************************************************)
MaxQueue == 3

\* Requests with valid rows, with no usable usage row, and with an item cost
\* whose conversion throws.
RequestSamples ==
    {[lotData |-> lotData, itemsData |-> itemsData, usageData |-> usageData] :
        lotData \in {<<>>, <<LotRow(Sa, Sa, 1), LotRow(Sa, Sa, 2)>>},
        itemsData \in {<<ItemRow(Sa, N(3))>>, <<ItemRow(Sa, BAD)>>},
        usageData \in {<<UsageRow(Sa, Sa, N(6))>>, <<UsageRow(Sa, NULL, N(6))>>}}

InitWorker ==
    /\ toWorker = <<>> /\ toMain = <<>> /\ handled = NoRequest
    /\ MapperIdle
    /\ HookInitial
    /\ posted = 0

\* workerRef.current.postMessage(...): one more request is queued.
PostMessage ==
    /\ posted < MaxQueue
    /\ \E r \in RequestSamples :
          toWorker' = Append(toWorker, Request(posted + 1, r.lotData, r.itemsData, r.usageData))
    /\ posted' = posted + 1
    /\ UNCHANGED <<toMain, handled, mapperVars, allData, mergedInventory, filesLoaded, lastUpdated,
                   isProcessing, massUploadSummary, hasLoaded, papaLoaded, parses, batch, ops>>

NextWorker == PostMessage \/ WorkerOnMessage

\* The worker's event loop runs the handler of a queued message: among the
\* steps of NextWorker, those that take the head of the queue are exactly the
\* steps of WorkerOnMessage, which is enabled exactly when the queue is not
\* empty.
WorkerRuns == toWorker # <<>> /\ toWorker' = Tail(toWorker)

SpecWorker == InitWorker /\ [][NextWorker]_vars /\ WF_toWorker(WorkerRuns)

IsResponse(m) ==
    \/ m.type = "success" /\ DOMAIN m.payload = 1..Len(m.payload)
    \/ m.type = "error" /\ m.payload = <<>>

\* C5: every request posted is answered, and by exactly one message, a success
\* with an array or an error: at all times the k-th message on the way to the
\* hook answers the k-th request and no request has a second answer, and the
\* n-th request posted leads to an n-th answer.
C5_OneResponsePerRequest ==
    /\ [](/\ Len(toMain) + Len(toWorker) = posted
          /\ \A k \in 1..Len(toMain) : toMain[k].req = k /\ IsResponse(toMain[k]))
    /\ \A n \in 1..MaxQueue : (posted >= n) ~> (Len(toMain) >= n)

\* C5 witness: three requests answered, one of them by an error after an
\* exception, one by a non-empty array.
C5_Witness ==
    /\ toWorker = <<>> /\ Len(toMain) = MaxQueue
    /\ \E k \in 1..Len(toMain) : toMain[k].type = "error"
    /\ \E k \in 1..Len(toMain) : toMain[k].type = "success" /\ toMain[k].payload # <<>>

(***************************************************************************)
(* The mapper and the reconciler together: three uploaded tables whose     *)
(* item ids are numbers in some files and text in others.                  *)
(***************************************************************************)
MaxItemId == 2

\* Item ids as dynamicTyping leaves them: the number 100100 or the text "100100".
ItemNumbers == {100100 + k : k \in 0..(MaxItemId - 1)}
ItemIds == {N(k) : k \in ItemNumbers} \cup {S(NatToStr(k)) : k \in ItemNumbers} \cup {NULL}

RawLot(id) == <<("Item" :> id) @@ ("WH" :> Sa) @@ ("On Hand" :> N(2)) @@ ("Available" :> N(2))>>
RawItems(id) == <<("Item" :> id) @@ ("Avg Cost" :> N(3))>>
RawUsage(id) == <<("item" :> id) @@ ("Warehouse" :> Sa) @@ ("MO Avg" :> N(6))>>

InitJoin ==
    /\ \E lotId \in ItemIds, itemsId \in ItemIds, usageId \in ItemIds :
          mapperIn = [type |-> "tables",
                      row |-> [lot |-> RawLot(lotId), items |-> RawItems(itemsId),
                               usage |-> RawUsage(usageId)]]
    /\ mapperOut = NoRecord
    /\ toWorker = <<>> /\ toMain = <<>> /\ handled = NoRequest
    /\ HookInitial
    /\ posted = 0

\* sanitizeData on each table (useDataProcessor.ts 279), then the reconciler
\* on the three results.
SanitizeAndReconcile ==
    /\ mapperIn.type = "tables" /\ ~mapperOut.done
    /\ LET data == [NoData EXCEPT !.lot = sanitizeData(mapperIn.row.lot, "lot"),
                                  !.items = sanitizeData(mapperIn.row.items, "items"),
                                  !.usage = sanitizeData(mapperIn.row.usage, "usage")]
           posts == Reconcile(data.lot, data.items, data.usage)
       IN  /\ allData' = data
           /\ mergedInventory' = posts[1].payload
    /\ mapperOut' = [done |-> TRUE, rec |-> <<>>]
    /\ UNCHANGED <<workerVars, mapperIn, filesLoaded, lastUpdated, isProcessing, massUploadSummary,
                   hasLoaded, papaLoaded, parses, batch, posted, ops>>

NextJoin == SanitizeAndReconcile

SpecJoin == InitJoin /\ [][NextJoin]_vars

\* The text of an id, whatever its type in the file.
IdText(id) == IF id.t = "num" THEN NatToStr(id.n) ELSE id.s

\* C11: after sanitizeData every non-null item is a string, and the lot row
\* joins the item-master row and the usage row of the same id text whatever
\* the types the ids had in the files: its record carries their cost and usage.
C11_ItemsJoinAsStrings ==
    mapperOut.done =>
        LET lotId == mapperIn.row.lot[1]["Item"]
            itemsId == mapperIn.row.items[1]["Item"]
            usageId == mapperIn.row.usage[1]["item"]
        IN  /\ \A type \in ReconcileInputs : \A i \in 1..Len(allData[type]) :
                  ~IsNullish(allData[type][i].item) => allData[type][i].item.t = "str"
            /\ (lotId # NULL /\ usageId # NULL) =>
                  /\ Len(mergedInventory) = 1
                  /\ mergedInventory[1].item = IdText(lotId)
                  /\ mergedInventory[1].monthlyAvg =
                        (IF IdText(usageId) = IdText(lotId) THEN 6 ELSE 0)
                  /\ mergedInventory[1].unitCost =
                        (IF itemsId # NULL /\ IdText(itemsId) = IdText(lotId) THEN 3 ELSE 0)

\* C11 witness: a numeric lot id joined to a text item-master id and a text usage id.
C11_Witness ==
    /\ mapperOut.done /\ mapperIn.type = "tables"
    /\ mapperIn.row.lot[1]["Item"].t = "num"
    /\ mapperIn.row.items[1]["Item"].t = "str"
    /\ mapperIn.row.usage[1]["item"].t = "str"
    /\ Len(mergedInventory) = 1
    /\ mergedInventory[1].unitCost = 3 /\ mergedInventory[1].monthlyAvg = 6

(***************************************************************************)
(* parseNumeric alone: one value drawn from the values a cell or a saved   *)
(* session can hold.                                                       *)
(***************************************************************************)
MaxText == 3

TextChars == {"1", "5", "0", ",", ".", " ", "x", "-"}
SampleText == <<"1", ",", "2", "3", "4", ".", "5">>
NumericValues ==
    {NULL, UNDEF, BAD} \cup {N(k) : k \in {0, 7, -3}}
        \cup {S(text) : text \in SeqsUpTo(TextChars, MaxText)} \cup {S(SampleText)}

InitNumeric ==
    /\ \E value \in NumericValues : mapperIn = [type |-> "parseNumeric", row |-> value]
    /\ mapperOut = NoRecord
    /\ toWorker = <<>> /\ toMain = <<>> /\ handled = NoRequest
    /\ HookInitial
    /\ posted = 0

\* What a call returns: kind tells a whole number (int), a number with a
\* fraction (dec) and an exception (throw).
Outcome(kind, int, dec) == [kind |-> kind, int |-> int, dec |-> dec]
NoFraction == [units |-> 0, places |-> 0]

\* parseNumeric(value)
ParseNumericCall ==
    /\ mapperIn.type = "parseNumeric" /\ ~mapperOut.done
    /\ LET value == mapperIn.row IN
       mapperOut' =
          [done |-> TRUE,
           rec |-> IF parseNumericThrows(value) THEN Outcome("throw", 0, NoFraction)
                   ELSE IF value.t = "str" /\ HasFraction(RemoveCommas(value.s))
                        THEN Outcome("dec", 0, parseNumeric(value))
                        ELSE Outcome("int", parseNumeric(value), NoFraction)]
    /\ UNCHANGED <<workerVars, mapperIn, hookVars>>

NextNumeric == ParseNumericCall

SpecNumeric == InitNumeric /\ [][NextNumeric]_vars

\* The digits of a text, commas and sign and point left out, and the number
\* of digits after the point.
DigitsIn(text) == SelectSeq(text, LAMBDA c : c \in DigitChars)
PlacesIn(text) ==
    IF \E i \in 1..Len(text) : text[i] = "."
    THEN Len(text) - (CHOOSE i \in 1..Len(text) : text[i] = ".")
    ELSE 0
RECURSIVE Pow10(_)
Pow10(k) == IF k = 0 THEN 1 ELSE 10 * Pow10(k - 1)
ValueOfDigits(ds) ==
    SumSeq([i \in 1..Len(ds) |-> DigitVal(ds[i]) * Pow10(Len(ds) - i)])

\* The text, commas removed and blanks trimmed, is a decimal numeral: an
\* optional sign, digits, at most one point, at least one digit.
Denotes(text) ==
    LET t == Trim(SelectSeq(text, LAMBDA c : c # ",")) IN
    /\ DigitsIn(t) # <<>>
    /\ Cardinality({i \in 1..Len(t) : t[i] = "."}) <= 1
    /\ \A i \in 1..Len(t) : t[i] \in DigitChars \cup {"."} \/ (i = 1 /\ t[i] \in {"-", "+"})

Q(num, den) == [num |-> num, den |-> den]
QMul(a, b) == Q(a.num * b.num, a.den * b.den)
QSub(a, b) == Q(a.num * b.den - b.num * a.den, a.den * b.den)
\* a / b for b > 0
QDiv(a, b) == Q(a.num * b.den, a.den * b.num)
QLe(a, b) == a.num * b.den <= b.num * a.den
QEq(a, b) == a.num * b.den = b.num * a.den
\* Math.ceil
QCeil(a) == -((-a.num) \div a.den)
\* Math.max(0, k)
Max0(k) == IF k > 0 THEN k ELSE 0

PURCHASING_LOGIC_CONSTANTS ==
    [DAYS_IN_MONTH |-> 30, SAFETY_STOCK_DAYS |-> 14, TARGET_STOCK_MULTIPLIER |-> Q(3, 2),
     LONG_LEAD_TIME_SAFETY_FACTOR |-> Q(1, 2)]

defaultLeadTime == LeadTimeOf(DEFAULT)
\* x > 0 for a field that may be undefined
Positive(v) == v.t = "num" /\ v.n > 0
\* item.monthlyAvg || 0, divided by DAYS_IN_MONTH
dailyAvg(item) == Q(OrElse(item.monthlyAvg, N(0)).n, PURCHASING_LOGIC_CONSTANTS.DAYS_IN_MONTH)
\* item.leadTime || defaultLeadTime
leadTimeOf(item) == OrElse(item.leadTime, defaultLeadTime).n

\* The mutant adds no days for a long lead time.
effectiveSafetyStockDaysFlat(leadTime) == PURCHASING_LOGIC_CONSTANTS.SAFETY_STOCK_DAYS

effectiveSafetyStockDays(leadTime) ==
    IF leadTime > defaultLeadTime.n
    THEN PURCHASING_LOGIC_CONSTANTS.SAFETY_STOCK_DAYS
            + QCeil(QMul(Q(leadTime, 1), PURCHASING_LOGIC_CONSTANTS.LONG_LEAD_TIME_SAFETY_FACTOR))
    ELSE PURCHASING_LOGIC_CONSTANTS.SAFETY_STOCK_DAYS

calculatedReorderPoint(item) ==
    QMul(dailyAvg(item), Q(leadTimeOf(item) + effectiveSafetyStockDays(leadTimeOf(item)), 1))

\* The mutant forgets the default lead time.
reorderPointNoDefault(item) ==
    IF Positive(item.min) THEN Q(item.min.n, 1)
    ELSE QMul(dailyAvg(item),
              Q(OrElse(item.leadTime, N(0)).n
                   + effectiveSafetyStockDays(OrElse(item.leadTime, N(0)).n), 1))

reorderPoint(item) ==
    IF Positive(item.min) THEN Q(item.min.n, 1) ELSE calculatedReorderPoint(item)

\* The mutant takes the multiple of the reorder point whatever item.max is.
targetStockNoMax(item) ==
    QMul(reorderPoint(item), PURCHASING_LOGIC_CONSTANTS.TARGET_STOCK_MULTIPLIER)

targetStock(item) ==
    IF Positive(item.max) THEN Q(item.max.n, 1)
    ELSE QMul(reorderPoint(item), PURCHASING_LOGIC_CONSTANTS.TARGET_STOCK_MULTIPLIER)

Finite(q) == [inf |-> FALSE, q |-> q]
Infinity == [inf |-> TRUE, q |-> Q(0, 1)]

\* The mutant reports no supply where there is no usage.
daysOfSupplyZero(item) ==
    IF dailyAvg(item).num > 0 THEN Finite(QDiv(Q(item.available.n, 1), dailyAvg(item)))
    ELSE Finite(Q(0, 1))

daysOfSupply(item) ==
    IF dailyAvg(item).num > 0 THEN Finite(QDiv(Q(item.available.n, 1), dailyAvg(item)))
    ELSE Infinity

needsReorder(item) == QLe(Q(item.available.n, 1), reorderPoint(item))

\* The mutant loses Math.max(0, ...).
suggestedUnclamped(item) ==
    IF needsReorder(item)
    THEN QCeil(QSub(targetStock(item), Q(item.available.n, 1)))
    ELSE 0

\* The mutant rounds the quantity to reach the target down.
suggestedFloor(item) ==
    IF needsReorder(item)
    THEN Max0((QSub(targetStock(item), Q(item.available.n, 1))).num
                 \div (QSub(targetStock(item), Q(item.available.n, 1))).den)
    ELSE 0

suggested(item) ==
    IF needsReorder(item)
    THEN Max0(QCeil(QSub(targetStock(item), Q(item.available.n, 1))))
    ELSE 0

calculateReorderQty(item) ==
    [reorderPoint |-> reorderPoint(item), targetStock |-> targetStock(item),
     daysOfSupply |-> daysOfSupply(item), needsReorder |-> needsReorder(item),
     suggested |-> suggested(item)]

(***************************************************************************)
(* calculateReorderQty alone: one reconciled item drawn.                   *)
(***************************************************************************)
MaxUsage == 2

Item(available, min, max, monthlyAvg, leadTime) ==
    [available |-> available, min |-> min, max |-> max, monthlyAvg |-> monthlyAvg,
     leadTime |-> leadTime]
Availables == {N(-10), N(0), N(20), N(21), N(50), N(56), N(57), N(90)}
Minimums == {N(0), N(-1), N(20)}
Maximums == {N(0), N(-1), N(40)}
MonthlyAvgs == {UNDEF, N(7)} \cup {N(30 * k) : k \in 0..MaxUsage}
LeadTimes == {UNDEF, N(0), N(10), N(14), N(15), N(21), N(28), N(35)}
Items ==
    {Item(available, min, max, monthlyAvg, leadTime) :
        available \in Availables, min \in Minimums, max \in Maximums,
        monthlyAvg \in MonthlyAvgs, leadTime \in LeadTimes}

InitReorder ==
    /\ \E item \in Items : mapperIn = [type |-> "item", row |-> item]
    /\ mapperOut = NoRecord
    /\ toWorker = <<>> /\ toMain = <<>> /\ handled = NoRequest
    /\ HookInitial
    /\ posted = 0

\* calculateReorderQty(item)
CalculateReorderQtyCall ==
    /\ mapperIn.type = "item" /\ ~mapperOut.done
    /\ mapperOut' = [done |-> TRUE, rec |-> calculateReorderQty(mapperIn.row)]
    /\ UNCHANGED <<workerVars, mapperIn, hookVars>>

NextReorder == CalculateReorderQtyCall

SpecReorder == InitReorder /\ [][NextReorder]_vars

\* The item of the call and what it returned.
Called == mapperIn.type = "item" /\ mapperOut.done
TheItem == mapperIn.row
Info == mapperOut.rec
\* The figures of the item as plain integers: usage 0 and lead time 14 when
\* zero or absent.
Usage == IF TheItem.monthlyAvg.t = "num" THEN TheItem.monthlyAvg.n ELSE 0
Lead == IF TheItem.leadTime.t = "num" /\ TheItem.leadTime.n # 0 THEN TheItem.leadTime.n ELSE 14
MinSet == TheItem.min.n > 0
MaxSet == TheItem.max.n > 0
\* q = n / d
Is(q, n, d) == q.num * d = n * q.den

\* C13: reorderPoint is item.min when item.min > 0, else (monthlyAvg / 30) x
\* (leadTime + effectiveSafetyDays) with 14 safety days when leadTime <= 14;
\* available 50, min 0, max 0, monthlyAvg 60, leadTime 14 gives 56, true, 84, 34.
C13_ReorderPoint ==
    Called =>
        /\ MinSet => Is(Info.reorderPoint, TheItem.min.n, 1)
        /\ (~MinSet /\ Lead <= 14) => Is(Info.reorderPoint, Usage * (Lead + 14), 30)
        /\ TheItem = Item(N(50), N(0), N(0), N(60), N(14)) =>
              /\ Is(Info.reorderPoint, 56, 1) /\ Info.needsReorder
              /\ Is(Info.targetStock, 84, 1) /\ Info.suggested = 34

\* C13 witness: the item of the example.
C13_Witness ==
    /\ Called
    /\ TheItem = Item(N(50), N(0), N(0), N(60), N(14))
    /\ Info.suggested = 34

\* C14: with min > 0 and max > 0 the result is reorderPoint = min, targetStock =
\* max and needsReorder = (available <= min) whatever the usage and lead time;
\* with max not positive targetStock is reorderPoint x 1.5.
C14_ErpOverride ==
    Called =>
        /\ (MinSet /\ MaxSet) =>
              /\ Is(Info.reorderPoint, TheItem.min.n, 1)
              /\ Is(Info.targetStock, TheItem.max.n, 1)
              /\ Info.needsReorder = (TheItem.available.n <= TheItem.min.n)
        /\ ~MaxSet =>
              Is(Info.targetStock, 3 * Info.reorderPoint.num, 2 * Info.reorderPoint.den)

\* C14 witness: min 20 and max 40 set on an item with usage and a long lead time.
C14_Witness ==
    /\ Called
    /\ MinSet /\ MaxSet /\ Usage = 60 /\ Lead = 28
    /\ Is(Info.reorderPoint, 20, 1) /\ Is(Info.targetStock, 40, 1) /\ ~Info.needsReorder

\* C15: with min not positive and leadTime > 14 the reorder point is dailyAvg x
\* (leadTime + 14 + ceil(leadTime x 0.5)), dailyAvg x 56 for leadTime 28, and
\* for dailyAvg > 0 strictly more than dailyAvg x (leadTime + 14); with
\* leadTime <= 14 no days are added.
C15_LongLeadTimeBoost ==
    (Called /\ ~MinSet) =>
        /\ Lead > 14 =>
              /\ Is(Info.reorderPoint, Usage * (Lead + 14 + ((Lead + 1) \div 2)), 30)
              /\ Usage > 0 =>
                    Info.reorderPoint.num * 30 > Usage * (Lead + 14) * Info.reorderPoint.den
        /\ Lead = 28 => Is(Info.reorderPoint, Usage * 56, 30)
        /\ Lead <= 14 => Is(Info.reorderPoint, Usage * (Lead + 14), 30)

\* C15 witness: lead time 28 and monthly usage 60, reorder point 2 x 56.
C15_Witness ==
    /\ Called /\ ~MinSet
    /\ Lead = 28 /\ Usage = 60
    /\ Is(Info.reorderPoint, 112, 1)

\* C16: with monthlyAvg 0 or absent daysOfSupply is +infinity and needsReorder
\* is available <= (min when min > 0, else 0); with monthlyAvg > 0 daysOfSupply
\* is available / (monthlyAvg / 30).
C16_DaysOfSupply ==
    Called =>
        /\ Usage = 0 =>
              /\ Info.daysOfSupply.inf
              /\ Info.needsReorder =
                    (TheItem.available.n <= (IF MinSet THEN TheItem.min.n ELSE 0))
        /\ Usage > 0 =>
              /\ ~Info.daysOfSupply.inf
              /\ Is(Info.daysOfSupply.q, TheItem.available.n * 30, Usage)

\* C16 witness: no usage figure at all, stock above zero, nothing to reorder.
C16_Witness ==
    /\ Called
    /\ TheItem.monthlyAvg = UNDEF /\ ~MinSet /\ TheItem.available.n > 0
    /\ Info.daysOfSupply.inf /\ ~Info.needsReorder

MaxColumns == 4

\* Headers of every type, and one no signature knows.
HeaderPool ==
    <<"PO", "Open", "Customer Name", "Order", "On Hand", "Available", "Committed",
      "Avg Cost", "Primary Vendor", "MO Avg", "Min", "Vendor", "Name", "Notes">>
\* results.meta.fields: the columns chosen, in file order.
HeaderRows ==
    {SelectSeq(HeaderPool, LAMBDA h : h \in chosen) :
        chosen \in {c \in SUBSET Range(HeaderPool) : Cardinality(c) <= MaxColumns}}

InitClassify ==
    /\ \E headers \in HeaderRows : mapperIn = [type |-> "headers", row |-> headers]
    /\ mapperOut = NoRecord
    /\ toWorker = <<>> /\ toMain = <<>> /\ handled = NoRequest
    /\ HookInitial
    /\ posted = 0

\* The bestMatch loop of the preview callback (328-347) on the headers drawn.
ClassifyCall ==
    /\ mapperIn.type = "headers" /\ ~mapperOut.done
    /\ mapperOut' = [done |-> TRUE, rec |-> [type |-> identifiedType(mapperIn.row)]]
    /\ UNCHANGED <<workerVars, mapperIn, hookVars>>

NextClassify == ClassifyCall

SpecClassify == InitClassify /\ [][NextClassify]_vars

\* The signature table read as the specification reads it.
Classified == mapperIn.type = "headers" /\ mapperOut.done
Columns == Range(mapperIn.row)
Signature(type) == fileSignatures[CHOOSE k \in 1..Len(fileSignatures) : fileSignatures[k].type = type]
Position(type) == CHOOSE k \in 1..Len(fileSignatures) : fileSignatures[k].type = type
Types == {fileSignatures[k].type : k \in 1..Len(fileSignatures)}
RequiredMet(type) == \A g \in Range(Signature(type).required) : g \cap Columns # {}
OptionalMet(type) == Cardinality({i \in 1..Len(Signature(type).optional) :
                                     Signature(type).optional[i] \cap Columns # {}})
Passes(type) == RequiredMet(type) /\ OptionalMet(type) >= Signature(type).minOptional
Score(type) == Len(Signature(type).required) + OptionalMet(type)

\* C18: the classifier returns a type only if the type passes both gates, one
\* of maximum score among the types that pass, and none exactly when no type
\* passes; all required groups of a type with minOptional 1 and none of its
\* optional groups does not make that type.
C18_MaxScoreWithinGates ==
    Classified =>
        LET type == mapperOut.rec.type IN
        /\ type # "" => /\ type \in Types /\ Passes(type)
                        /\ \A other \in Types : Passes(other) => Score(other) <= Score(type)
        /\ type = "" <=> \A other \in Types : ~Passes(other)
        /\ \A other \in Types :
              (RequiredMet(other) /\ Signature(other).minOptional = 1 /\ OptionalMet(other) = 0)
                 => type # other

\* C18 witness: a purchase-order column without any optional column next to
\* the columns of a usage file: usage, not po.
C18_Witness ==
    /\ Classified
    /\ RequiredMet("po") /\ ~Passes("po")
    /\ mapperOut.rec.type = "usage"

\* C19: among several types that pass with the same maximum score the one
\* declared first is returned.
C19_FirstDeclaredWinsTie ==
    Classified =>
        \A other \in Types :
            (Passes(other) /\ mapperOut.rec.type # "" /\ Score(other) = Score(mapperOut.rec.type))
               => Position(mapperOut.rec.type) <= Position(other)

\* C19 witness: lot and usage both pass with score 2, lot is returned.
C19_Witness ==
    /\ Classified
    /\ Passes("lot") /\ Passes("usage") /\ Score("lot") = Score("usage")
    /\ mapperOut.rec.type = "lot"

(***************************************************************************)
(* The hook with the scheduling of its callbacks: Papa.parse calls back    *)
(* every parse it was given, the then-callback of Promise.all runs once    *)
(* every promise is resolved.                                              *)
(***************************************************************************)
ParseCallback == PreviewComplete \/ PreviewError \/ FullComplete \/ FullError

SpecBatch == Init /\ [][Next]_vars /\ WF_vars(ParseCallback) /\ WF_vars(MassUploadDone)

\* The step of the then-callback of a bulk upload, and the files of the
\* batch by the callback that resolved them.
BatchCompletes == batch.active /\ ~batch'.active
Resolved(outcome) == {i \in 1..Len(batch.files) : batch.outcome[i] = outcome}
TableOf(i) == sanitizeData(batch.files[i].rows, batch.types[i])
ParsedTypes == {batch.types[i] : i \in Resolved("parsed")}

Scripts == [1..MaxQueue -> RequestSamples]

InitRepeat ==
    /\ \E script \in Scripts : mapperIn = [type |-> "requests", row |-> script]
    /\ mapperOut = NoRecord
    /\ toWorker = <<>> /\ toMain = <<>> /\ handled = NoRequest
    /\ HookInitial
    /\ posted = 0

\* postMessage of the next request of the script.
PostScripted ==
    /\ mapperIn.type = "requests" /\ posted < Len(mapperIn.row)
    /\ LET r == mapperIn.row[posted + 1] IN
       toWorker' = Append(toWorker, Request(posted + 1, r.lotData, r.itemsData, r.usageData))
    /\ posted' = posted + 1
    /\ UNCHANGED <<toMain, handled, mapperVars, allData, mergedInventory, filesLoaded, lastUpdated,
                   isProcessing, massUploadSummary, hasLoaded, papaLoaded, parses, batch, ops>>

NextRepeat == PostScripted \/ WorkerOnMessage

SpecRepeat == InitRepeat /\ [][NextRepeat]_vars

Scripted(k) == mapperIn.row[k]
SameTables(a, b) ==
    a.lotData = b.lotData /\ a.itemsData = b.itemsData /\ a.usageData = b.usageData

NameOf(code) == VENDOR_DETAILS[CHOOSE i \in 1..Len(VENDOR_DETAILS) : VENDOR_DETAILS[i][1] = code][2]

Sb == S(<<"b">>)
STASTA == <<"S", "T", "A", "S", "T", "A">>
EDSMAN == <<"E", "D", "S", "M", "A", "N">>
TENRYU == <<"T", "E", "N", "R", "Y", "U">>

\* Vendor cells of a lot file: absent, empty, a directory name, another name.
LotVendors == {NULL, Empty, S(NameOf(EDSMAN)), S(<<"v">>)}
\* Primary vendor cells of the item master.
PrimaryVendors == {NULL, UNDEF, Empty, S(NameOf(STASTA)), S(NameOf(TENRYU)), S(<<"x">>)}
\* Vendor code cells: absent, empty, codes with a lead time, a code without,
\* and texts that name a property of Object.prototype.
VendorCodes ==
    {NULL, Empty, S(<<"E", "L", "C", "I", "N", "D">>), S(EDSMAN), S(TENRYU), S(<<"Z", "Z">>), S(DEFAULT),
     S(<<"c", "o", "n", "s", "t", "r", "u", "c", "t", "o", "r">>), S(ProtoKey)}

LotLine(vendor) ==
    [item |-> Sa, warehouse |-> Sa, description |-> NULL, vendor |-> vendor,
     location |-> NULL, onHand |-> N(2), committed |-> N(0), available |-> N(2)]

ItemMaster(item, primaryVendor, vendorCode) ==
    [item |-> item, description |-> S(<<"i">>), unitCost |-> N(3),
     primaryVendor |-> primaryVendor, category |-> NULL, rpl |-> NULL,
     vendorCode |-> vendorCode]

ItemMasters ==
    {<<>>} \cup {<<ItemMaster(item, primaryVendor, vendorCode)>> :
                    item \in {Sa, Sb}, primaryVendor \in PrimaryVendors,
                    vendorCode \in VendorCodes}

InitVendor ==
    /\ \E vendors \in SeqsUpTo(LotVendors, MaxLots), itemsData \in ItemMasters :
          toWorker = <<Request(1, [i \in 1..Len(vendors) |-> LotLine(vendors[i])], itemsData,
                               <<UsageRow(Sa, Sa, N(6))>>)>>
    /\ toMain = <<>>
    /\ handled = NoRequest
    /\ MapperIdle
    /\ HookInitial
    /\ posted = 1

NextVendor == WorkerOnMessage

SpecVendor == InitVendor /\ [][NextVendor]_vars

NonEmpty(v) == ~IsNullish(v) /\ v # Empty

\* The item-master rows of an item id, and the lot lines of a record.
MasterOf(item) == SelectSeq(handled.itemsData, LAMBDA r : r.item = S(item))
LinesOf(rec) ==
    SelectSeq(handled.lotData, LAMBDA r : r.item = S(rec.item) /\ r.warehouse = rec.warehouse)
NonEmptyVendors(rec) ==
    LET lines == SelectSeq(LinesOf(rec), LAMBDA r : NonEmpty(r.vendor)) IN
    [i \in 1..Len(lines) |-> lines[i].vendor]
DirectoryCodes(vendor) ==
    {VENDOR_DETAILS[i][1] : i \in {k \in 1..Len(VENDOR_DETAILS) : S(VENDOR_DETAILS[k][2]) = vendor}}

Mapped(code) ==
    code.t = "str" /\ \E i \in 1..Len(VENDOR_LEAD_TIMES) : VENDOR_LEAD_TIMES[i][1] = code.s
EntryOf(code) ==
    VENDOR_LEAD_TIMES[CHOOSE i \in 1..Len(VENDOR_LEAD_TIMES) : VENDOR_LEAD_TIMES[i][1] = code][2]

\* C23 (as claimed): leadTime is the table's entry for the record's vendorCode
\* when the code is resolved and mapped, the DEFAULT entry (14) when it is
\* missing or unmapped; hence every record has a leadTime above 0.
C23_LeadTimeFromTable ==
    Reconciled =>
        \A k \in 1..Len(Payload) :
            LET rec == Payload[k] IN
            /\ rec.leadTime =
                  (IF Mapped(rec.vendorCode) THEN N(EntryOf(rec.vendorCode.s))
                   ELSE N(EntryOf(DEFAULT)))
            /\ rec.leadTime.t = "num" /\ rec.leadTime.n > 0

(***************************************************************************)
(* Properties of the single-file upload (Spec).                            *)
(***************************************************************************)
\* C24: the complete callback of a single-file parse of type T leaves in the
\* record set of T exactly the sanitized rows of the new file and leaves the
\* other five record sets as they were; the error callback leaves all six as
\* they were.
C24_UploadReplacesOneType ==
    [][\A i \in 1..Len(parses) :
          /\ UploadCompleteOf(i) =>
                /\ allData'[parses[i].type] = sanitizeData(parses[i].file.rows, parses[i].type)
                /\ \A type \in DataTypes \ {parses[i].type} : allData'[type] = allData[type]
                /\ DOMAIN allData' = DataTypes
          /\ UploadErrorOf(i) => allData' = allData]_vars

\* C24 witness: the lot file B was uploaded over the lot table of the restored
\* session, whose usage table is still there.
C24_Witness ==
    /\ ops = 1 /\ parses = <<>>
    /\ allData.lot = sanitizeData(LotFileB.rows, "lot")
    /\ allData.usage = sanitizeData(UsageFile.rows, "usage")
    /\ filesLoaded.lot = FileInfo(LotFileB)

(***************************************************************************)
(* The reconciler on the lot lines of a group: up to MaxLots lot lines of  *)
(* one item in two warehouses, each with its own description and vendor    *)
(* cell, and an item master of at most one row for the item.               *)
(***************************************************************************)
\* Description cells: absent, empty, and two texts.
Descriptions == {NULL, Empty, S(<<"d">>), S(<<"e">>)}
GroupVendors == {NULL, S(<<"v">>), S(<<"w">>)}

GroupLine(warehouse, description, vendor) ==
    [item |-> Sa, warehouse |-> warehouse, description |-> description, vendor |-> vendor,
     location |-> NULL, onHand |-> N(1), committed |-> N(0), available |-> N(1)]

GroupLines ==
    {GroupLine(warehouse, description, vendor) :
        warehouse \in {Sa, Sb}, description \in Descriptions, vendor \in GroupVendors}

\* The item master: no row, or a row with or without a description.
DescribedItems ==
    {<<>>} \cup {<<[ItemMaster(Sa, NULL, NULL) EXCEPT !.description = description]>> :
                    description \in {Empty, S(<<"i">>)}}

InitLines ==
    /\ \E lotData \in SeqsUpTo(GroupLines, MaxLots), itemsData \in DescribedItems :
          toWorker = <<Request(1, lotData, itemsData,
                               <<UsageRow(Sa, Sa, N(6)), UsageRow(Sa, Sb, N(6))>>)>>
    /\ toMain = <<>>
    /\ handled = NoRequest
    /\ MapperIdle
    /\ HookInitial
    /\ posted = 1

NextLines == WorkerOnMessage

SpecLines == InitLines /\ [][NextLines]_vars

\* The non-empty values of a field over the lot lines of a record, in input order.
Supplied(rec, field) ==
    LET lines == SelectSeq(LinesOf(rec), LAMBDA r : NonEmpty(r[field])) IN
    [i \in 1..Len(lines) |-> lines[i][field]]

BatchCallback == batch.active /\ batch'.active /\ batch' # batch
IdentifiedFiles == {i \in 1..Len(batch.files) : batch.types[i] # ""}

\* C26: no callback of a file of the batch changes a record table or the file
\* list; the then-callback runs only when every file has finished, merges in
\* the tables of the parsed files and leaves the tables of the other types as
\* they were, and with no file identified it leaves allData, filesLoaded and
\* lastUpdated as they were.
C26_BatchAppliedOnce ==
    [][/\ BatchCallback =>
             allData' = allData /\ filesLoaded' = filesLoaded /\ lastUpdated' = lastUpdated
       /\ BatchCompletes =>
             /\ \A i \in 1..Len(batch.files) : batch.status[i] = "done"
             /\ \A type \in DataTypes \ ParsedTypes :
                   allData'[type] = allData[type] /\ filesLoaded'[type] = filesLoaded[type]
             /\ \A type \in ParsedTypes :
                   \E i \in Resolved("parsed") :
                       /\ batch.types[i] = type
                       /\ allData'[type] = TableOf(i)
                       /\ filesLoaded'[type] = FileInfo(batch.files[i])
             /\ IdentifiedFiles = {} =>
                   allData' = allData /\ filesLoaded' = filesLoaded
                   /\ lastUpdated' = lastUpdated]_vars

\* C26 witness: a bulk upload of a lot file and a usage file is under way over
\* a restored session; the lot file is parsed, the usage file is not yet, and
\* the tables are still those of the session.
C26_Witness ==
    /\ batch.active /\ Len(batch.files) = 2
    /\ batch.outcome[1] = "parsed" /\ batch.status[2] # "done"
    /\ lastUpdated = SavedDate
    /\ allData.lot # <<>> /\ "lot" \in DOMAIN batch.newAllData

\* C26 witness of the other case: a bulk upload in which no file was
\* identified has completed over a restored session, and the tables, the file
\* list and the date are those of the session.
C26_NothingIdentified ==
    /\ ~batch.active /\ ops = 1 /\ parses = <<>>
    /\ massUploadSummary.shown /\ massUploadSummary.processed = <<>>
    /\ lastUpdated = SavedDate /\ allData.lot # <<>>

\* The parsed file of a type that comes last in the order of the file list.
LastListed(type) ==
    CHOOSE i \in Resolved("parsed") :
        /\ batch.types[i] = type
        /\ \A j \in Resolved("parsed") : batch.types[j] = type => j <= i

\* C27 (as claimed): what a bulk upload applies does not depend on the order in
\* which the parses complete.  The callbacks may run in the order of the file
\* list, and then the file listed last gives the table of its type: so, for
\* every order, the table and the file entry of each type are those of the
\* parsed file of that type listed last.
C27_OrderIndependent ==
    [][BatchCompletes =>
          \A type \in ParsedTypes :
              /\ allData'[type] = TableOf(LastListed(type))
              /\ filesLoaded'[type] = FileInfo(batch.files[LastListed(type)])]_vars

(***************************************************************************)
(* Properties of the busy flag (Spec).                                     *)
(***************************************************************************)
\* Work started by the hook and not yet finished: a request posted whose
\* answer is not yet handled, a single-file parse, a bulk upload.
Outstanding == toWorker # <<>> \/ toMain # <<>> \/ parses # <<>> \/ batch.active

\* C28 (as claimed): isProcessing is true whenever work is outstanding.
C28_BusyWhileOutstanding == Outstanding => isProcessing

\* C29 as stated: an item flagged for reorder has a suggested quantity of at
\* least 1.
C29_FlaggedHasQuantity == (Called /\ Info.needsReorder) => Info.suggested >= 1

\* C29 (amended): for an item flagged for reorder, suggested is a whole number
\* >= 0, and it is at least 1 exactly when the target stock is above the
\* available stock; an item at or above its target is flagged with 0.
C29_QuantityWhenBelowTarget ==
    (Called /\ Info.needsReorder) =>
        LET ts == Info.targetStock
            a == TheItem.available.n
        IN  /\ Info.suggested \in Nat
            /\ (Info.suggested >= 1) = (ts.num > a * ts.den)

\* C29 witness: an item with no stock, no usage, no minimum and no maximum is
\* flagged (0 <= 0) with a suggested quantity of 0.
C29_Witness ==
    /\ Called /\ Info.needsReorder /\ Info.suggested = 0
    /\ TheItem.available = N(0) /\ Usage = 0 /\ ~MinSet /\ ~MaxSet


(***************************************************************************)
(* The frame of an upload: the reconcile effect (238-247) depends on the   *)
(* lot, item and usage tables only, and the single upload (269-294)        *)
(* replaces one record set through a functional update of allData.         *)
(***************************************************************************)
\* A step whose state update assigns a lot, item or usage table: the restored
\* session, a single upload of one of the three types, or a bulk upload that
\* identified a file of one of them.
ReconcileTableSet ==
    \/ RestoreSession
    \/ \E i \in 1..Len(parses) : UploadCompleteOf(i) /\ parses[i].type \in ReconcileInputs
    \/ MassUploadDone /\ batch.processed # <<>>
          /\ DOMAIN batch.newAllData \cap ReconcileInputs # {}

\* C30: the completed upload of a po, sales or vendors file replaces that
\* record set only: every other table is as before, no request is posted to
\* the worker and mergedInventory is unchanged; and a request is posted only by
\* a step that assigns the lot, item or usage table and leaves both the lot and
\* the usage table non-empty.
C30_OnlyReconcileTablesPost ==
    [][/\ \A i \in 1..Len(parses) :
             (UploadCompleteOf(i) /\ parses[i].type \in {"po", "sales", "vendors"}) =>
                 /\ allData' = [allData EXCEPT ![parses[i].type] =
                                    sanitizeData(parses[i].file.rows, parses[i].type)]
                 /\ toWorker' = toWorker /\ posted' = posted
                 /\ mergedInventory' = mergedInventory
       /\ (posted' # posted) =>
             /\ ReconcileTableSet
             /\ allData'.lot # <<>> /\ allData'.usage # <<>>
             /\ toWorker' = Append(toWorker, Request(posted', allData'.lot, allData'.items,
                                                     allData'.usage))]_vars

\* A po file was uploaded on its own over a restored session whose lot and
\* usage tables are loaded: the only request posted is the one of the restore.
C30_Witness ==
    /\ ops = 1 /\ parses = <<>> /\ ~batch.active /\ ~massUploadSummary.shown
    /\ allData.po = sanitizeData(PoFile.rows, "po") /\ allData.po # <<>>
    /\ allData.lot # <<>> /\ allData.usage # <<>>
    /\ posted = 1

\* The same with a sales file and a vendors file, one after the other.
C30_WitnessOthers ==
    /\ ops = MaxOps /\ parses = <<>>
    /\ allData.sales # <<>> /\ allData.vendors # <<>>
    /\ allData.lot # <<>> /\ allData.usage # <<>>
    /\ posted = 1

====
